---- MODULE Spec2Model ----
(***************************************************************************)
(* Evaluation orchestration engine of rag-evaluation-framework:            *)
(*   eval/judges.py   _call_judge_api and the four judge functions         *)
(*   eval/metrics.py  compute_metrics, compute_overall_score               *)
(*   eval/runner.py   run_eval                                             *)
(*                                                                         *)
(* Scores are Python floats (IEEE-754 binary64).  They are modelled        *)
(* bit-exactly: a double is a sign, a 53-bit significand (a little-endian  *)
(* sequence of 24-bit limbs) and the exponent of its lowest bit.  Sums,    *)
(* products and quotients round to nearest, ties to even, as the hardware  *)
(* does; nan compares false with everything.                               *)
(***************************************************************************)
EXTENDS Integers, Sequences, FiniteSets, TLC

(***************************************************************************)
(* binary64 arithmetic                                                     *)
(***************************************************************************)

\* Width of the significand of a Python float (sys.float_info.mant_dig).
MantBits == 53

\* A natural number is a little-endian sequence of limbs below 2^LimbBits
\* with no zero limb on top (<<>> is 0).
LimbBits == 24

Base == 2 ^ LimbBits

\* Extra low bits a dividend gets before a division, so that the quotient
\* has more than MantBits + 1 bits.
DivShift == 8

RECURSIVE NStrip(_)
\* Drop the zero limbs on top.
NStrip(a) ==
  IF a = <<>> THEN <<>>
  ELSE IF a[Len(a)] = 0 THEN NStrip(SubSeq(a, 1, Len(a) - 1))
  ELSE a

Limb(a, i) == IF i >= 1 /\ i <= Len(a) THEN a[i] ELSE 0

RECURSIVE NAddC(_, _, _, _)
NAddC(a, b, i, c) ==
  IF i > Len(a) /\ i > Len(b) THEN (IF c = 0 THEN <<>> ELSE <<c>>)
  ELSE <<(Limb(a, i) + Limb(b, i) + c) % Base>>
       \o NAddC(a, b, i + 1, (Limb(a, i) + Limb(b, i) + c) \div Base)

\* a + b.
NAdd(a, b) == NAddC(a, b, 1, 0)

RECURSIVE NSubB(_, _, _, _)
NSubB(a, b, i, c) ==
  IF i > Len(a) THEN <<>>
  ELSE <<(Limb(a, i) - Limb(b, i) - c) % Base>>
       \o NSubB(a, b, i + 1, IF Limb(a, i) - Limb(b, i) - c < 0 THEN 1 ELSE 0)

\* a - b, for a >= b.
NSub(a, b) == NStrip(NSubB(a, b, 1, 0))

RECURSIVE NMulC(_, _, _, _)
NMulC(a, n, i, c) ==
  IF i > Len(a) THEN (IF c = 0 THEN <<>> ELSE <<c>>)
  ELSE <<(a[i] * n + c) % Base>> \o NMulC(a, n, i + 1, (a[i] * n + c) \div Base)

\* a * n for a small natural n (n < 64, so that no limb product overflows).
NMul(a, n) == NStrip(NMulC(a, n, 1, 0))

RECURSIVE NRem(_, _, _)
\* The remainder of the limbs i..Len(a) of a (as a number) by n.
NRem(a, n, i) ==
  IF i > Len(a) THEN 0 ELSE (NRem(a, n, i + 1) * Base + a[i]) % n

\* a \div n for a small natural n > 0: schoolbook division, high limb first.
NDiv(a, n) == NStrip([i \in 1..Len(a) |-> (NRem(a, n, i + 1) * Base + a[i]) \div n])

RECURSIVE NCmpAt(_, _, _)
NCmpAt(a, b, i) ==
  IF i = 0 THEN 0
  ELSE IF a[i] > b[i] THEN 1
  ELSE IF a[i] < b[i] THEN -1
  ELSE NCmpAt(a, b, i - 1)

\* -1, 0 or 1 as a is below, equal to or above b.
NCmp(a, b) ==
  IF Len(a) > Len(b) THEN 1
  ELSE IF Len(a) < Len(b) THEN -1
  ELSE NCmpAt(a, b, Len(a))

\* Number of bits of a.
BitLen(a) ==
  IF a = <<>> THEN 0
  ELSE LimbBits * (Len(a) - 1)
       + (CHOOSE k \in 1..LimbBits : 2 ^ (k - 1) <= a[Len(a)] /\ a[Len(a)] < 2 ^ k)

\* a * 2^d.
NShl(a, d) ==
  LET w == d \div LimbBits
      b == d % LimbBits
      c == 2 ^ (LimbBits - b)
  IN NStrip([i \in 1..w |-> 0]
            \o [i \in 1..(Len(a) + 1) |->
                  (Limb(a, i) % c) * (2 ^ b) + (Limb(a, i - 1) \div c)])

\* a \div 2^d.
NShr(a, d) ==
  LET w == d \div LimbBits
      b == d % LimbBits
  IN NStrip([i \in 1..(Len(a) - w) |->
               (Limb(a, i + w) \div (2 ^ b))
               + (Limb(a, i + w + 1) % (2 ^ b)) * (2 ^ (LimbBits - b))])

\* Bit j of a (bit 0 is the lowest).
NBit(a, j) == (Limb(a, (j \div LimbBits) + 1) \div (2 ^ (j % LimbBits))) % 2

\* The j lowest bits of a are all zero.
NLowZero(a, j) ==
  /\ \A i \in 1..(j \div LimbBits) : Limb(a, i) = 0
  /\ Limb(a, (j \div LimbBits) + 1) % (2 ^ (j % LimbBits)) = 0

FZero == [s |-> 0, m |-> <<>>, e |-> 0]

\* float("nan"): no significand, and an exponent zero never has.
FNaN == [s |-> 0, m |-> <<>>, e |-> 1]

IsNaN(x) == x = FNaN

\* The double nearest to (-1)^s * a * 2^e (a stripped): the significand is
\* normalised to MantBits bits, rounding to nearest, ties to even.
Round(s, a, e) ==
  IF a = <<>> THEN FZero
  ELSE IF BitLen(a) <= MantBits
       THEN [s |-> s, m |-> NShl(a, MantBits - BitLen(a)),
             e |-> e - (MantBits - BitLen(a))]
  ELSE LET k    == BitLen(a) - MantBits
           kept == NShr(a, k)
           up   == NBit(a, k - 1) = 1
                   /\ (~NLowZero(a, k - 1) \/ NBit(kept, 0) = 1)
           r    == IF up THEN NAdd(kept, <<1>>) ELSE kept
       IN IF BitLen(r) > MantBits
          THEN [s |-> s, m |-> NShr(r, 1), e |-> e + k + 1]
          ELSE [s |-> s, m |-> r, e |-> e + k]

\* float(n) for an integer n >= 0.
FloatOfNat(n) == Round(0, NStrip(<<n>>), 0)

\* The double (-1)^s * (l2 * 2^48 + l1 * 2^24 + l0) * 2^e.
Double(s, l2, l1, l0, e) == Round(s, NStrip(<<l0, l1, l2>>), e)

IsZero(x) == x.m = <<>> /\ x.e = 0

\* -1, 0, 1: comparison of the magnitudes of two doubles.
CmpMag(x, y) ==
  IF IsZero(x) THEN (IF IsZero(y) THEN 0 ELSE -1)
  ELSE IF IsZero(y) THEN 1
  ELSE IF x.e > y.e THEN 1
  ELSE IF x.e < y.e THEN -1
  ELSE NCmp(x.m, y.m)

\* x < y on doubles.
FLt(x, y) ==
  IF IsNaN(x) \/ IsNaN(y) THEN FALSE
  ELSE IF x.s = 0 /\ y.s = 0 THEN CmpMag(x, y) < 0
  ELSE IF x.s = 1 /\ y.s = 1 THEN CmpMag(x, y) > 0
  ELSE x.s = 1 /\ ~(IsZero(x) /\ IsZero(y))

\* x + y on doubles, correctly rounded.
FAdd(x, y) ==
  IF IsNaN(x) \/ IsNaN(y) THEN FNaN
  ELSE IF IsZero(x) THEN y
  ELSE IF IsZero(y) THEN x
  ELSE LET lo == IF x.e < y.e THEN x.e ELSE y.e
           a  == NShl(x.m, x.e - lo)
           b  == NShl(y.m, y.e - lo)
       IN IF x.s = y.s THEN Round(x.s, NAdd(a, b), lo)
          ELSE IF NCmp(a, b) >= 0 THEN Round(x.s, NSub(a, b), lo)
          ELSE Round(y.s, NSub(b, a), lo)

\* The number of zero bits below the lowest set bit of a significand.
LowZeros(m) == CHOOSE j \in 0..(MantBits - 1) : NLowZero(m, j) /\ NBit(m, j) = 1

\* A double y /= 0 as n * 2^e with n odd.
OddPart(y) ==
  LET z == LowZeros(y.m)
  IN  [n |-> NShr(y.m, z)[1], e |-> y.e + z]

\* x * y on doubles, correctly rounded, for y with an odd part below 64.
FMul(x, y) ==
  IF IsNaN(x) \/ IsNaN(y) THEN FNaN
  ELSE IF IsZero(x) \/ IsZero(y) THEN FZero
  ELSE LET o == OddPart(y)
       IN  Round((x.s + y.s) % 2, NMul(x.m, o.n), x.e + o.e)

\* x / y on doubles, correctly rounded, for y /= 0 with an odd part below 64.
\* The quotient is computed to DivShift extra bits; one more bit below it
\* records a remainder.
FDiv(x, y) ==
  IF IsNaN(x) \/ IsNaN(y) THEN FNaN
  ELSE IF IsZero(x) THEN FZero
  ELSE LET o == OddPart(y)
           n == o.n
           a == NShl(x.m, DivShift)
           q == NDiv(a, n)
           r == NRem(a, n, 1)
       IN Round((x.s + y.s) % 2,
                NAdd(NShl(q, 1), IF r = 0 THEN <<>> ELSE <<1>>),
                x.e - DivShift - 1 - o.e)

\* Python's min(a, b) and max(a, b): the first argument unless the second
\* is strictly smaller (larger).
PyMin(a, b) == IF FLt(b, a) THEN b ELSE a

PyMax(a, b) == IF FLt(a, b) THEN b ELSE a

RECURSIVE PySumFrom(_, _, _)
PySumFrom(xs, i, acc) ==
  IF i > Len(xs) THEN acc ELSE PySumFrom(xs, i + 1, FAdd(acc, xs[i]))

\* Python's sum(xs): a left fold of + starting from 0.
PySum(xs) == PySumFrom(xs, 1, FZero)

\* Doubles the model draws judge scores and weights from (the double
\* nearest to each decimal, as json.loads yields it).
F02 == Double(0, 25, 10066329, 10066330, -55)

F04 == Double(0, 25, 10066329, 10066330, -54)

F06 == Double(0, 19, 3355443, 3355443, -53)

F07 == Double(0, 22, 6710886, 6710886, -53)

F08 == Double(0, 25, 10066329, 10066330, -53)

FOne == Double(0, 16, 0, 0, -52)

F15 == Double(0, 24, 0, 0, -52)

FNeg03 == Double(1, 19, 3355443, 3355443, -54)

(***************************************************************************)
(* eval/judges.py                                                          *)
(***************************************************************************)

\* Largest num_samples the model runs a judge with.
MaxSamples == 3

\* Largest max_retries the model calls _call_judge_api with directly.
MaxRetriesArg == 3

\* The default of the max_retries parameter of _call_judge_api.
DefaultMaxRetries == 3

\* The keys of METRIC_REGISTRY: the names of the four judge functions.
MetricNames ==
  {"contextual_precision", "contextual_relevance", "correctness", "faithfulness"}

\* Python's None, and a reply without a "verdict" key.
None == [kind |-> "None"]

NoVerdict == "<no verdict>"

\* What one chat-completion call can come to: the transport raises, the
\* content is not parseable JSON, or it is a JSON object with or without a
\* "score" key.  A score is a number (kind "num"), NaN, or a value float()
\* rejects (kind "text": a non-numeric string raises ValueError, null or a
\* list TypeError).
Scores ==
  {[kind |-> "num", v |-> F02], [kind |-> "num", v |-> F04],
   [kind |-> "num", v |-> F06], [kind |-> "num", v |-> F15],
   [kind |-> "num", v |-> FNeg03], [kind |-> "nan"], [kind |-> "text"]}

VerdictOf(score) ==
  CASE score = [kind |-> "num", v |-> F02] -> "A"
    [] score = [kind |-> "num", v |-> F04] -> "B"
    [] score = [kind |-> "num", v |-> F15] -> "C"
    [] score = [kind |-> "text"] -> "D"
    [] OTHER -> NoVerdict

ScoredReplies ==
  {[kind |-> "json", has_score |-> TRUE, score |-> s, verdict |-> VerdictOf(s)] :
     s \in Scores}

Replies ==
  {[kind |-> "exception"], [kind |-> "malformed"],
   [kind |-> "json", has_score |-> FALSE]} \cup ScoredReplies

VARIABLES
  judge,              \* the judge function running ("none": a direct call of _call_judge_api)
  num_samples,        \* judges.py:102
  include_reasoning,  \* judges.py:104
  max_retries,        \* parameter of _call_judge_api
  jpc,                \* position in the judge function / _call_judge_api
  sample_num,         \* loop variable of the judge function, 0-based
  attempt,            \* loop variable of _call_judge_api, 0-based
  calls,              \* replies of the calls made by the running _call_judge_api
  api_result,         \* what _call_judge_api returned
  samples,
  verdict,
  accepted,           \* the replies _call_judge_api returned to this judge call, in order
  invoked,            \* number of _call_judge_api invocations of this judge call
  jresult,            \* what the judge function returned
  records,            \* dataset.records (runner.py:64-67): the record ids, in order
  selected_metrics,   \* parameter of run_eval and compute_metrics: None or a list
  overall_score_weights,  \* settings.overall_score_weights (config.py:77)
  rpc,                \* position in run_eval
  record_index,       \* loop variable i of run_eval (runner.py:94), 1-based
  metric_index,       \* position of compute_metrics in its list of names, 1-based
  metric_results,     \* results of compute_metrics: a dict, in insertion order
  outcomes,           \* what each judge called for the current record came to
  overall_score,      \* runner.py:117
  report_jsonl,       \* the lines of the record log report.jsonl
  attempted,          \* the record ids answer_question was called for, in order
  skipped,            \* the records the except of runner.py:143 logged, with the cause
  raised,             \* the exception that left run_eval
  progress_callback,  \* parameter of run_eval: "none" or a callable
  progress,           \* the calls progress_callback received, in order
  run_folder,         \* whether this call of run_eval created its run folder
  writes,             \* the files of the run folder written as a whole, in order
  rag_result,         \* what answer_question returned for the current record
  summary,            \* summary_dict of generate_summary
  num_questions,      \* parameter of run_eval: absent (<<>>) or an integer <<n>>
  dataset,            \* the records of the dataset as load_dataset returned them
  metadata,           \* the content of metadata.json
  environment,        \* the judge parameters Settings() reads from .env and the defaults
  settings,           \* the judge parameters of the settings object given to run_eval
  config_snapshot,    \* the judge parameters in config_snapshot.json
  judge_settings,     \* the judge parameters the last judge function ran with
  clock,              \* the UTC wall clock, in seconds
  utc_offset,         \* local time minus UTC, in seconds
  eval_tasks,         \* _eval_tasks (eval_router.py:28): a dict, run_id -> task info
  run_dirs,           \* the folders under storage/runs: a dict, name -> content
  jobs,               \* the background tasks run_evaluation_task, one per run started
  response            \* what the last request to the router was answered with

jvars == <<judge, num_samples, include_reasoning, max_retries, jpc, sample_num,
           attempt, calls, api_result, samples, verdict, accepted, invoked, jresult>>

\* The variables of the run folder and of the progress sink.
fvars == <<progress_callback, progress, run_folder, writes, rag_result, summary,
           num_questions, dataset, metadata>>

rvars == <<records, selected_metrics, overall_score_weights, rpc,
           record_index, metric_index, metric_results, outcomes, overall_score, report_jsonl, attempted,
           skipped, raised, fvars>>

\* The variables of the settings and of the router of api/routers/eval_router.py.
avars == <<environment, settings, config_snapshot, judge_settings, clock, utc_offset,
           eval_tasks, run_dirs, jobs, response>>

vars == <<jvars, rvars, avars>>

\* The argument selected_metrics: None (the default, runner.py:49 and
\* metrics.py:38) or a list of names.
NoneGiven == [none |-> TRUE, list |-> <<>>]

ListGiven(names) == [none |-> FALSE, list |-> names]

\* No run_eval is running: the judge layer is exercised alone.
RunnerIdle ==
  /\ records = <<>>
  /\ selected_metrics = NoneGiven
  /\ overall_score_weights = <<>>
  /\ rpc = "idle"
  /\ record_index = 0
  /\ metric_index = 0
  /\ metric_results = <<>>
  /\ outcomes = <<>>
  /\ overall_score = FZero
  /\ report_jsonl = <<>>
  /\ attempted = <<>>
  /\ skipped = <<>>
  /\ raised = "none"
  /\ progress_callback = "none"
  /\ num_questions = <<>>
  /\ dataset = <<>>
  /\ metadata = None
  /\ progress = <<>>
  /\ run_folder = FALSE
  /\ writes = <<>>
  /\ rag_result = None
  /\ summary = None

\* No judge function is modelled step by step: the runner draws each judge
\* call's outcome as a whole.
JudgeIdle ==
  /\ judge = "none"
  /\ num_samples = 0
  /\ include_reasoning = FALSE
  /\ max_retries = 0
  /\ jpc = "idle"
  /\ sample_num = 0
  /\ attempt = 0
  /\ calls = <<>>
  /\ api_result = None
  /\ samples = <<>>
  /\ verdict = ""
  /\ accepted = <<>>
  /\ invoked = 0
  /\ jresult = None

\* No request to the router is modelled and the settings play no part.
ApiIdle ==
  /\ environment = None
  /\ settings = None
  /\ config_snapshot = None
  /\ judge_settings = None
  /\ clock = 0
  /\ utc_offset = 0
  /\ eval_tasks = <<>>
  /\ run_dirs = <<>>
  /\ jobs = <<>>
  /\ response = None

\* json.loads succeeded and "score" is a key of the result (judges.py:47-54).
Accepted(reply) == reply.kind = "json" /\ reply.has_score

\* ApiAttempt with the loop bound off by one: range(max_retries + 1).
ApiAttemptOneMore ==
  /\ jpc = "api"
  /\ attempt <= max_retries
  /\ \E reply \in Replies :
       /\ calls' = Append(calls, reply)
       /\ IF Accepted(reply)
          THEN /\ api_result' = reply
               /\ jpc' = "api_ret"
               /\ attempt' = attempt
          ELSE /\ attempt' = attempt + 1
               /\ UNCHANGED <<api_result, jpc>>
  /\ UNCHANGED <<judge, num_samples, include_reasoning, max_retries, sample_num,
                 samples, verdict, accepted, invoked, jresult>>
  /\ UNCHANGED <<rvars, avars>>

\* One pass of the retry loop of _call_judge_api (judges.py:35-59): the call
\* is made; a reply with a score is returned at once, anything else is
\* logged and the loop goes on.
ApiAttempt ==
  /\ jpc = "api"
  /\ attempt < max_retries
  /\ \E reply \in Replies :
       /\ calls' = Append(calls, reply)
       /\ IF Accepted(reply)
          THEN /\ api_result' = reply
               /\ jpc' = "api_ret"
               /\ attempt' = attempt
          ELSE /\ attempt' = attempt + 1
               /\ UNCHANGED <<api_result, jpc>>
  /\ UNCHANGED <<judge, num_samples, include_reasoning, max_retries, sample_num,
                 samples, verdict, accepted, invoked, jresult>>
  /\ UNCHANGED <<rvars, avars>>

\* range(max_retries) is exhausted: return None (judges.py:61).
ApiGiveUp ==
  /\ jpc = "api"
  /\ attempt >= max_retries
  /\ api_result' = None
  /\ jpc' = "api_ret"
  /\ UNCHANGED <<judge, num_samples, include_reasoning, max_retries, sample_num,
                 attempt, calls, samples, verdict, accepted, invoked, jresult>>
  /\ UNCHANGED <<rvars, avars>>

\* OpenAI() is constructed outside the try (judges.py:33): when it raises,
\* the exception leaves _call_judge_api and the judge function.
ApiClientRaises ==
  /\ jpc = "api"
  /\ attempt = 0
  /\ calls = <<>>
  /\ jpc' = "raised"
  /\ UNCHANGED <<judge, num_samples, include_reasoning, max_retries, sample_num,
                 attempt, calls, api_result, samples, verdict, accepted, invoked,
                 jresult>>
  /\ UNCHANGED <<rvars, avars>>

\* The error result of a judge function (judges.py:139-144, 158-163).
JudgeError(msg) ==
  [score |-> FZero, verdict |-> "", samples |-> <<>>, error |-> msg]

\* Clamp without its upper bound.
ClampBelowOnly(score) == PyMax(FZero, score)

\* score = max(0.0, min(1.0, score)) (judges.py:149).
Clamp(score) == PyMax(FZero, PyMin(FOne, score))

\* The verdict kept only from the first sample that has one.
NextVerdictFirst(v, result) ==
  IF include_reasoning /\ v = ""
  THEN (IF result.verdict = NoVerdict THEN "" ELSE result.verdict)
  ELSE v

\* if include_reasoning: verdict = result.get("verdict", "") (judges.py:152-153).
NextVerdict(v, result) ==
  IF include_reasoning
  THEN (IF result.verdict = NoVerdict THEN "" ELSE result.verdict)
  ELSE v

\* float(result["score"]) (judges.py:148), for a score float() accepts.
FloatOf(score) == IF score.kind = "nan" THEN FNaN ELSE score.v

\* The average taken over one sample too many.
AverageOffByOne(xs) ==
  IF xs = <<>> THEN FZero ELSE FDiv(PySum(xs), FloatOfNat(Len(xs) + 1))

\* sum(samples) / len(samples) if samples else 0.0 (judges.py:166).
Average(xs) == IF xs = <<>> THEN FZero ELSE FDiv(PySum(xs), FloatOfNat(Len(xs)))

\* for sample_num in range(num_samples): result = _call_judge_api(...)
\* (judges.py:132-133).
JudgeInvoke ==
  /\ judge \in MetricNames
  /\ jpc = "loop"
  /\ sample_num < num_samples
  /\ jpc' = "api"
  /\ attempt' = 0
  /\ calls' = <<>>
  /\ invoked' = invoked + 1
  /\ UNCHANGED <<judge, num_samples, include_reasoning, max_retries, sample_num,
                 api_result, samples, verdict, accepted, jresult>>
  /\ UNCHANGED <<rvars, avars>>

\* JudgeSample with a failed sample skipped instead of aborting the metric.
JudgeSampleSkipsFailure ==
  /\ judge \in MetricNames
  /\ jpc = "api_ret"
  /\ IF api_result = None
     THEN /\ sample_num' = sample_num + 1
          /\ jpc' = "loop"
          /\ UNCHANGED <<jresult, samples, verdict, accepted>>
     ELSE /\ accepted' = Append(accepted, api_result)
          /\ IF api_result.score.kind = "text"
             THEN /\ jresult' = JudgeError("Invalid score format in judge response")
                  /\ jpc' = "done"
                  /\ UNCHANGED <<sample_num, samples, verdict>>
             ELSE /\ samples' = Append(samples, Clamp(FloatOf(api_result.score)))
                  /\ verdict' = NextVerdict(verdict, api_result)
                  /\ sample_num' = sample_num + 1
                  /\ jpc' = "loop"
                  /\ UNCHANGED jresult
  /\ attempt' = 0
  /\ calls' = <<>>
  /\ UNCHANGED <<judge, num_samples, include_reasoning, max_retries, api_result,
                 invoked>>
  /\ UNCHANGED <<rvars, avars>>

\* The body of the sample loop after the call (judges.py:135-163).  The
\* locals of the finished _call_judge_api are gone.
JudgeSample ==
  /\ judge \in MetricNames
  /\ jpc = "api_ret"
  /\ IF api_result = None
     THEN /\ jresult' = JudgeError("Judge failed to return valid JSON after retries (sample "
                                 \o ToString(sample_num + 1) \o ")")
          /\ jpc' = "done"
          /\ UNCHANGED <<sample_num, samples, verdict, accepted>>
     ELSE /\ accepted' = Append(accepted, api_result)
          /\ IF api_result.score.kind = "text"
             THEN /\ jresult' = JudgeError("Invalid score format in judge response")
                  /\ jpc' = "done"
                  /\ UNCHANGED <<sample_num, samples, verdict>>
             ELSE /\ samples' = Append(samples, Clamp(FloatOf(api_result.score)))
                  /\ verdict' = NextVerdict(verdict, api_result)
                  /\ sample_num' = sample_num + 1
                  /\ jpc' = "loop"
                  /\ UNCHANGED jresult
  /\ attempt' = 0
  /\ calls' = <<>>
  /\ UNCHANGED <<judge, num_samples, include_reasoning, max_retries, api_result,
                 invoked>>
  /\ UNCHANGED <<rvars, avars>>

\* After the loop: the average and the result (judges.py:165-172).
JudgeReturn ==
  /\ judge \in MetricNames
  /\ jpc = "loop"
  /\ sample_num >= num_samples
  /\ jresult' = [score |-> Average(samples),
                 verdict |-> IF include_reasoning THEN verdict ELSE "",
                 samples |-> samples]
  /\ jpc' = "done"
  /\ UNCHANGED <<judge, num_samples, include_reasoning, max_retries, sample_num,
                 attempt, calls, api_result, samples, verdict, accepted, invoked>>
  /\ UNCHANGED <<rvars, avars>>

\* A direct call _call_judge_api(prompt, model, temperature, max_retries).
InitCall ==
  /\ judge = "none"
  /\ max_retries \in 0..MaxRetriesArg
  /\ jpc = "api"
  /\ attempt = 0
  /\ calls = <<>>
  /\ api_result = None
  /\ num_samples = 0
  /\ include_reasoning = FALSE
  /\ sample_num = 0
  /\ samples = <<>>
  /\ verdict = ""
  /\ accepted = <<>>
  /\ invoked = 1
  /\ jresult = None
  /\ RunnerIdle
  /\ ApiIdle

NextCall == ApiAttempt \/ ApiGiveUp \/ ApiClientRaises

SpecCall == InitCall /\ [][NextCall]_vars

\* A call of one of the four judge functions by compute_metrics, which
\* passes no overrides: num_samples and include_reasoning come from the
\* settings (judge_num_samples >= 1, config.py:45-49), max_retries is the
\* default.
InitJudge ==
  /\ judge \in MetricNames
  /\ num_samples \in 1..MaxSamples
  /\ include_reasoning \in BOOLEAN
  /\ max_retries = DefaultMaxRetries
  /\ jpc = "loop"
  /\ sample_num = 0
  /\ attempt = 0
  /\ calls = <<>>
  /\ api_result = None
  /\ samples = <<>>
  /\ verdict = ""
  /\ accepted = <<>>
  /\ invoked = 0
  /\ jresult = None
  /\ RunnerIdle
  /\ ApiIdle

NextJudge ==
  \/ JudgeInvoke
  \/ ApiAttempt
  \/ ApiGiveUp
  \/ ApiClientRaises
  \/ JudgeSample
  \/ JudgeReturn

SpecJudge == InitJudge /\ [][NextJudge]_vars

(***************************************************************************)
(* Claims about eval/judges.py                                             *)
(***************************************************************************)

\* A reply _call_judge_api may return: parseable JSON with a score field.
ValidReply(r) == r.kind = "json" /\ r.has_score

\* 0.0 <= x <= 1.0.
InUnit(x) == ~IsNaN(x) /\ ~FLt(x, FZero) /\ ~FLt(FOne, x)

\* C3: _call_judge_api never makes more than max_retries calls; it goes on
\* calling only while no reply was valid; when it returns a reply, that is
\* the reply of its last call, it is valid and no earlier reply was; when it
\* returns None, it made exactly max_retries calls and none was valid.
C3_RetryUntilFirstValid ==
  /\ Len(calls) <= max_retries
  /\ jpc = "api" => /\ attempt = Len(calls)
                    /\ \A i \in 1..Len(calls) : ~ValidReply(calls[i])
  /\ (jpc = "api_ret" /\ api_result # None) =>
       /\ calls # <<>>
       /\ api_result = calls[Len(calls)]
       /\ ValidReply(api_result)
       /\ \A i \in 1..(Len(calls) - 1) : ~ValidReply(calls[i])
  /\ (jpc = "api_ret" /\ api_result = None) =>
       /\ Len(calls) = max_retries
       /\ \A i \in 1..Len(calls) : ~ValidReply(calls[i])

\* C3 witness: with max_retries = 3 the first reply had no score, the second
\* was valid and was returned after two calls.
C3_Witness ==
  /\ jpc = "api_ret"
  /\ max_retries = DefaultMaxRetries
  /\ Len(calls) = 2
  /\ calls[1] = [kind |-> "json", has_score |-> FALSE]
  /\ api_result = calls[2]

\* C4: when the invocation of sample k returned None, the judge function
\* returns in its next step, with an error, score 0.0 and no samples,
\* whatever the k-1 earlier samples scored; samples after k are never
\* invoked: a judge function that has returned makes no further step.
C4_AbortOnFailedSample ==
  /\ [][(judge \in MetricNames /\ jpc = "api_ret" /\ api_result = None) =>
          /\ jpc' = "done"
          /\ "error" \in DOMAIN jresult'
          /\ jresult'.score = FZero
          /\ jresult'.samples = <<>>
          /\ invoked' = sample_num + 1
          /\ invoked' = Len(accepted) + 1]_vars
  /\ [][jpc # "done"]_vars

\* C4 witness: of three samples the first scored and the second failed; the
\* judge returned the error and the third sample was never invoked.
C4_Witness ==
  /\ jpc = "done"
  /\ api_result = None
  /\ num_samples = 3
  /\ invoked = 2
  /\ Len(accepted) = 1
  /\ "error" \in DOMAIN jresult

\* C5: every element of the samples list and every score a judge function
\* returns lies in [0,1]; a raw score above 1 is stored as exactly 1.0, a raw
\* score below 0 as exactly 0.0.
C5_ScoresClamped ==
  /\ \A i \in 1..Len(samples) :
       /\ InUnit(samples[i])
       /\ accepted[i].score.kind = "num" =>
            /\ FLt(FOne, accepted[i].score.v) => samples[i] = FOne
            /\ FLt(accepted[i].score.v, FZero) => samples[i] = FZero
            /\ InUnit(accepted[i].score.v) => samples[i] = accepted[i].score.v
  /\ jpc = "done" =>
       /\ InUnit(jresult.score)
       /\ \A i \in 1..Len(jresult.samples) : InUnit(jresult.samples[i])

\* C5 witness: a judge returned samples [1.0, 0.0] for the raw scores
\* [1.5, -0.3].
C5_Witness ==
  /\ jpc = "done"
  /\ Len(accepted) = 2
  /\ accepted[1].score = [kind |-> "num", v |-> F15]
  /\ accepted[2].score = [kind |-> "num", v |-> FNeg03]
  /\ jresult.samples = <<FOne, FZero>>

\* The raw scores of the replies accepted so far.
RawScores == [i \in 1..Len(accepted) |-> accepted[i].score]

\* 0.4000000000000001, the double next above 0.4.
F04Up == Double(0, 25, 10066329, 10066331, -54)

\* The exact sum of doubles xs (none negative, none NaN) as a natural m and
\* an exponent e: m * 2^e.
RECURSIVE ExactSumFrom(_, _, _)
ExactSumFrom(xs, i, acc) ==
  IF i > Len(xs) THEN acc
  ELSE IF IsZero(xs[i]) THEN ExactSumFrom(xs, i + 1, acc)
  ELSE LET lo == IF acc.m = <<>> \/ xs[i].e < acc.e THEN xs[i].e ELSE acc.e
       IN ExactSumFrom(xs, i + 1,
            [m |-> NAdd(IF acc.m = <<>> THEN <<>> ELSE NShl(acc.m, acc.e - lo),
                        NShl(xs[i].m, xs[i].e - lo)),
             e |-> lo])

ExactSum(xs) == ExactSumFrom(xs, 1, [m |-> <<>>, e |-> 0])

\* Len(xs) * score differs from the exact sum of xs by at most the sum times
\* 2^-50: score is the arithmetic mean of xs up to floating-point rounding.
IsRoundedMean(score, xs) ==
  LET sum == ExactSum(xs)
  IN IF sum.m = <<>> THEN score = FZero
     ELSE /\ ~IsZero(score) /\ ~IsNaN(score) /\ score.s = 0
          /\ LET lo == IF score.e < sum.e THEN score.e ELSE sum.e
                 a  == NShl(NMul(score.m, Len(xs)), score.e - lo)
                 b  == NShl(sum.m, sum.e - lo)
                 d  == IF NCmp(a, b) >= 0 THEN NSub(a, b) ELSE NSub(b, a)
             IN NCmp(NShl(d, 50), b) <= 0

C7_VerdictOfLastSample ==
  jpc = "done" =>
    /\ ~include_reasoning => jresult.verdict = ""
    /\ (include_reasoning /\ "error" \notin DOMAIN jresult) =>
         /\ Len(accepted) = num_samples
         /\ jresult.verdict =
              (IF accepted[num_samples].verdict = NoVerdict
               THEN "" ELSE accepted[num_samples].verdict)

\* C7 witness: the first sample's reply had the verdict "A", the last one's
\* "B", and "B" was returned.
C7_Witness ==
  /\ jpc = "done"
  /\ include_reasoning
  /\ num_samples = 2
  /\ Len(accepted) = 2
  /\ accepted[1].verdict = "A"
  /\ accepted[2].verdict = "B"
  /\ jresult.verdict = "B"

(***************************************************************************)
(* eval/metrics.py                                                         *)
(***************************************************************************)

\* A dict is the sequence of its items [k, v] in insertion order, which is
\* the order values() and items() iterate in.
Keys(d) == [i \in 1..Len(d) |-> d[i].k]

HasKey(d, k) == \E i \in 1..Len(d) : d[i].k = k

Get(d, k) == d[CHOOSE i \in 1..Len(d) : d[i].k = k].v

\* d[k] = v: a key already present keeps its position.
Put(d, k, v) ==
  IF HasKey(d, k)
  THEN [i \in 1..Len(d) |-> IF d[i].k = k THEN [k |-> k, v |-> v] ELSE d[i]]
  ELSE Append(d, [k |-> k, v |-> v])

DEFAULT_METRICS ==
  <<"contextual_precision", "contextual_relevance", "correctness", "faithfulness">>

METRIC_REGISTRY == MetricNames

F05 == Double(0, 16, 0, 0, -53)

F20 == Double(0, 16, 0, 0, -51)

F30 == Double(0, 24, 0, 0, -51)

FNeg10 == Double(1, 16, 0, 0, -52)

\* What a call judge_func(...) of compute_metrics comes to: a result with
\* score, verdict and samples (judges.py:168-172), a result with an error
\* (judges.py:139-144, 158-163), or an exception (judges.py:33).
JudgeOutcomes ==
  { [kind |-> "ok", score |-> F08, verdict |-> "A", samples |-> <<F08>>],
    [kind |-> "ok", score |-> F06, verdict |-> "", samples |-> <<F06, F06>>],
    [kind |-> "ok", score |-> FZero, verdict |-> "C", samples |-> <<FZero>>],
    [kind |-> "error", error |-> "Invalid score format in judge response"],
    [kind |-> "raise", msg |-> "The api_key client option must be set"] }

\* The entry compute_metrics stores for one judge call (metrics.py:61-83).
MetricEntry(o) ==
  IF o.kind = "error"
  THEN [score |-> FZero, reason |-> "Judge Error: " \o o.error, samples |-> <<>>]
  ELSE IF o.kind = "raise"
  THEN [score |-> FZero, reason |-> "Error: " \o o.msg, samples |-> <<>>]
  ELSE [score |-> o.score, reason |-> o.verdict, samples |-> o.samples]

\* selected_metrics or DEFAULT_METRICS (metrics.py:41): None and the empty
\* list are both falsy.
NamesOf(sel) == IF sel.none \/ sel.list = <<>> THEN DEFAULT_METRICS ELSE sel.list

\* The items of weights whose key is in metric_results, in weights' order.
Matching(results, weights) == SelectSeq(weights, LAMBDA p : HasKey(results, p.k))

OverallScoreUndivided(results, weights) ==
  IF weights = <<>>
  THEN PySum([i \in 1..Len(results) |-> results[i].v.score])
  ELSE LET ms == Matching(results, weights)
       IN  PySum([i \in 1..Len(ms) |-> FMul(Get(results, ms[i].k).score, ms[i].v)])

\* The weighted sum divided by the sum of all configured weights, matching
\* or not.
OverallScoreAllWeights(results, weights) ==
  IF weights = <<>>
  THEN LET scores == [i \in 1..Len(results) |-> results[i].v.score]
       IN  IF scores = <<>>
           THEN FZero
           ELSE FDiv(PySum(scores), FloatOfNat(Len(scores)))
  ELSE LET ms == Matching(results, weights)
           weighted == [i \in 1..Len(ms) |-> FMul(Get(results, ms[i].k).score, ms[i].v)]
           total_weight == PySum([i \in 1..Len(weights) |-> weights[i].v])
       IN  IF FLt(FZero, total_weight)
           THEN FDiv(PySum(weighted), total_weight)
           ELSE FZero

compute_overall_score(results, weights) ==
  IF weights = <<>>
  THEN LET scores == [i \in 1..Len(results) |-> results[i].v.score]
       IN  IF scores = <<>>
           THEN FZero
           ELSE FDiv(PySum(scores), FloatOfNat(Len(scores)))
  ELSE LET ms == Matching(results, weights)
           weighted == [i \in 1..Len(ms) |-> FMul(Get(results, ms[i].k).score, ms[i].v)]
           total_weight == PySum([i \in 1..Len(ms) |-> ms[i].v])
       IN  IF FLt(FZero, total_weight)
           THEN FDiv(PySum(weighted), total_weight)
           ELSE FZero

(***************************************************************************)
(* eval/reporting.py                                                       *)
(***************************************************************************)

\* An optional integer of a line (prompt_tokens, completion_tokens,
\* total_tokens): <<>> is null, <<n>> is n.
Null == <<>>

\* result["metrics"].get(metric_name, {}).get("score", 0.0) (reporting.py:38).
ScoreOrZero(result, metric_name) ==
  IF HasKey(result.metrics, metric_name)
  THEN Get(result.metrics, metric_name).score
  ELSE FZero

RECURSIVE SumNatFrom(_, _)
SumNatFrom(ns, i) == IF i > Len(ns) THEN 0 ELSE ns[i] + SumNatFrom(ns, i + 1)

\* The quotient of two integers as a double (true division).
IntDiv(a, b) == FDiv(FloatOfNat(a), FloatOfNat(b))

\* Token averages taken over all lines, a line without token data counting
\* as 0.
TokenAveragesOverAll(results) ==
  LET with_tokens == SelectSeq(results, LAMBDA r : r.total_tokens # Null)
      n == Len(with_tokens)
      all == Len(results)
  IN  IF n > 0
      THEN [average_prompt_tokens |->
              <<IntDiv(SumNatFrom([i \in 1..n |-> with_tokens[i].prompt_tokens[1]], 1), all)>>,
            average_completion_tokens |->
              <<IntDiv(SumNatFrom([i \in 1..n |-> with_tokens[i].completion_tokens[1]], 1), all)>>,
            average_total_tokens |->
              <<IntDiv(SumNatFrom([i \in 1..n |-> with_tokens[i].total_tokens[1]], 1), all)>>]
      ELSE [average_prompt_tokens |-> Null,
            average_completion_tokens |-> Null,
            average_total_tokens |-> Null]

\* The token averages of generate_summary (reporting.py:49-58), over the
\* results whose total_tokens is not null.
TokenAverages(results) ==
  LET with_tokens == SelectSeq(results, LAMBDA r : r.total_tokens # Null)
      n == Len(with_tokens)
  IN  IF n > 0
      THEN [average_prompt_tokens |->
              <<IntDiv(SumNatFrom([i \in 1..n |-> with_tokens[i].prompt_tokens[1]], 1), n)>>,
            average_completion_tokens |->
              <<IntDiv(SumNatFrom([i \in 1..n |-> with_tokens[i].completion_tokens[1]], 1), n)>>,
            average_total_tokens |->
              <<IntDiv(SumNatFrom([i \in 1..n |-> with_tokens[i].total_tokens[1]], 1), n)>>]
      ELSE [average_prompt_tokens |-> Null,
            average_completion_tokens |-> Null,
            average_total_tokens |-> Null]

\* sum(r.get("prompt_tokens", 0) ...) adds None to an integer when a result
\* with total_tokens has a null prompt_tokens or completion_tokens: the key
\* is always present in a line (runner.py:134-136), so the default 0 is not
\* used.
TokenSumRaises(results) ==
  \E i \in 1..Len(results) :
    /\ results[i].total_tokens # Null
    /\ (results[i].prompt_tokens = Null \/ results[i].completion_tokens = Null)

\* The metric averages of generate_summary (reporting.py:30-42): the names
\* are the keys of the first result's metrics, each sum starts at 0.0, takes
\* 0.0 for a result without the metric, and is divided by the number of
\* results.
MetricAverages(results) ==
  LET metric_names == Keys(results[1].metrics)
      total_questions == Len(results)
  IN  [j \in 1..Len(metric_names) |->
         [k |-> metric_names[j],
          v |-> FDiv(PySum([i \in 1..total_questions |->
                              ScoreOrZero(results[i], metric_names[j])]),
                     FloatOfNat(total_questions))]]

\* TOP_N_WORST (reporting.py:13).
TOP_N_WORST == 5

\* METRIC_N_WORST (reporting.py:14).
METRIC_N_WORST == 3

\* x put into the list s, which is ascending by key: behind every element
\* whose key is not greater.
RECURSIVE InsertByKey(_, _)
InsertByKey(s, x) ==
  IF s = <<>> THEN <<x>>
  ELSE IF FLt(x.key, Head(s).key) THEN <<x>> \o s
  ELSE <<Head(s)>> \o InsertByKey(Tail(s), x)

RECURSIVE SortedFrom(_, _, _)
SortedFrom(items, i, acc) ==
  IF i > Len(items) THEN acc
  ELSE SortedFrom(items, i + 1, InsertByKey(acc, items[i]))

\* heapq.nsmallest(n, results, key=...), which is sorted(results, key=...)[:n]
\* with the stable sort of Python; items pairs each result with its key.
nsmallest(n, items) ==
  LET sorted == SortedFrom(items, 1, <<>>)
  IN  SubSeq(sorted, 1, IF n < Len(sorted) THEN n ELSE Len(sorted))

\* The worst results are taken from the end of the list that is ascending
\* by overall score.
WorstOverallFromTheEnd(results) ==
  LET sorted == SortedFrom([i \in 1..Len(results) |->
                              [key |-> results[i].overall_score, r |-> results[i]]],
                           1, <<>>)
      n == IF TOP_N_WORST < Len(sorted) THEN TOP_N_WORST ELSE Len(sorted)
  IN  [j \in 1..n |->
         [record_id |-> sorted[Len(sorted) + 1 - j].r.record_id,
          overall_score |-> sorted[Len(sorted) + 1 - j].r.overall_score]]

\* worst_overall of generate_summary (reporting.py:60, 89-97).
WorstOverall(results) ==
  LET worst == nsmallest(TOP_N_WORST,
                         [i \in 1..Len(results) |->
                            [key |-> results[i].overall_score, r |-> results[i]]])
  IN  [j \in 1..Len(worst) |->
         [record_id |-> worst[j].r.record_id,
          overall_score |-> worst[j].r.overall_score]]

\* worst_by_metric of generate_summary (reporting.py:62-77), for the metric
\* names of the first result.
WorstByMetric(results) ==
  LET metric_names == Keys(results[1].metrics)
  IN  [m \in 1..Len(metric_names) |->
         [k |-> metric_names[m],
          v |-> LET worst == nsmallest(METRIC_N_WORST,
                               [i \in 1..Len(results) |->
                                  [key |-> ScoreOrZero(results[i], metric_names[m]),
                                   r |-> results[i]]])
                IN  [j \in 1..Len(worst) |->
                       [record_id |-> worst[j].r.record_id,
                        score |-> ScoreOrZero(worst[j].r, metric_names[m])]]]]

\* summary_dict of generate_summary for the results read from a log that
\* holds at least one line (reporting.py:28-43, 49-99).
generate_summary(results) ==
  [total_questions |-> Len(results),
   metric_averages |-> MetricAverages(results),
   average_overall_score |->
     FDiv(PySum([i \in 1..Len(results) |-> results[i].overall_score]),
          FloatOfNat(Len(results))),
   average_prompt_tokens |-> TokenAverages(results).average_prompt_tokens,
   average_completion_tokens |-> TokenAverages(results).average_completion_tokens,
   average_total_tokens |-> TokenAverages(results).average_total_tokens,
   worst_overall |-> WorstOverall(results),
   worst_by_metric |-> WorstByMetric(results)]

(***************************************************************************)
(* eval/runner.py                                                          *)
(***************************************************************************)

\* The largest dataset of a run.
MaxRecords == 2

\* The longest list of requested metric names.
MaxRequest == 2

\* Names a caller may request: two registered ones and one that is not.
RequestNames == {"contextual_precision", "correctness", "bleu"}

RequestLists ==
  UNION { [1..n -> RequestNames] : n \in 0..MaxRequest }

\* record.id of the i-th record of the dataset.
RecordId(i) == "q" \o ToString(i)

\* settings.overall_score_weights: a dict of name -> float (config.py:77).
WeightChoices ==
  { <<>>,
    <<[k |-> "contextual_precision", v |-> FOne]>>,
    <<[k |-> "correctness", v |-> F05]>>,
    <<[k |-> "contextual_precision", v |-> FOne], [k |-> "correctness", v |-> F30]>>,
    <<[k |-> "faithfulness", v |-> F20]>>,
    <<[k |-> "contextual_precision", v |-> FZero]>>,
    <<[k |-> "contextual_precision", v |-> FNeg10]>> }

\* The try around the whole loop instead of around one pass: the first
\* exception ends the loop.
LogAndBreak(cause) ==
  /\ skipped' = Append(skipped, [record_id |-> records[record_index], cause |-> cause])
  /\ record_index' = Len(records) + 1
  /\ rpc' = "loop"

\* except Exception of run_eval (runner.py:143-145): log, go on with the
\* next record.
LogAndContinue(cause) ==
  /\ skipped' = Append(skipped, [record_id |-> records[record_index], cause |-> cause])
  /\ record_index' = record_index + 1
  /\ rpc' = "loop"

\* record.question of the record with this id.
QuestionOf(record_id) == "question of " \o record_id

\* The token counts answer_question returns (rag.py:76-84, 109-111): those
\* of the usage object of the chat completion, or None each when the reply
\* carries no usage or nothing was retrieved (rag.py:47-49).
TokenCounts ==
  { [prompt_tokens |-> Null, completion_tokens |-> Null, total_tokens |-> Null],
    [prompt_tokens |-> <<12>>, completion_tokens |-> <<7>>, total_tokens |-> <<19>>] }

\* The callback is called with i - 1, as by enumerate without its start.
ProgressFromZero ==
  /\ rpc = "loop"
  /\ record_index <= Len(records)
  /\ IF progress_callback = "none"
     THEN rpc' = "answer" /\ UNCHANGED <<progress, raised>>
     ELSE /\ progress' = Append(progress, [current |-> record_index - 1,
                                           total |-> Len(records),
                                           question |-> QuestionOf(records[record_index])])
          /\ \/ rpc' = "answer" /\ UNCHANGED raised
             \/ rpc' = "raised" /\ raised' = "progress_callback"
  /\ UNCHANGED <<records, selected_metrics, overall_score_weights, record_index,
                 metric_index, metric_results, outcomes, overall_score, report_jsonl,
                 attempted, skipped, progress_callback, num_questions, dataset, metadata, run_folder, writes, rag_result,
                 summary>>
  /\ UNCHANGED <<jvars, avars>>

\* The top of a pass of the loop (runner.py:94-99): the callback, if one was
\* given, is called outside the try; an exception it raises leaves run_eval.
Progress ==
  /\ rpc = "loop"
  /\ record_index <= Len(records)
  /\ IF progress_callback = "none"
     THEN rpc' = "answer" /\ UNCHANGED <<progress, raised>>
     ELSE /\ progress' = Append(progress, [current |-> record_index,
                                           total |-> Len(records),
                                           question |-> QuestionOf(records[record_index])])
          /\ \/ rpc' = "answer" /\ UNCHANGED raised
             \/ rpc' = "raised" /\ raised' = "progress_callback"
  /\ UNCHANGED <<records, selected_metrics, overall_score_weights, record_index,
                 metric_index, metric_results, outcomes, overall_score, report_jsonl,
                 attempted, skipped, progress_callback, num_questions, dataset, metadata, run_folder, writes, rag_result,
                 summary>>
  /\ UNCHANGED <<jvars, avars>>

\* answer_question(record.question, settings) (runner.py:102-106).
Answer ==
  /\ rpc = "answer"
  /\ attempted' = Append(attempted, records[record_index])
  /\ \/ /\ rpc' = "metrics"
        /\ \E tokens \in TokenCounts : rag_result' = tokens
        /\ metric_index' = 1
        /\ metric_results' = <<>>
        /\ outcomes' = <<>>
        /\ UNCHANGED <<record_index, skipped>>
     \/ /\ LogAndContinue("answer")
        /\ UNCHANGED <<metric_index, metric_results, outcomes, rag_result>>
  /\ UNCHANGED <<records, selected_metrics, overall_score_weights, overall_score,
                 report_jsonl, raised>>
  /\ UNCHANGED <<progress_callback, num_questions, dataset, metadata, progress, run_folder, writes, summary>>
  /\ UNCHANGED <<jvars, avars>>

\* One pass of the loop of compute_metrics in which an exception of the
\* judge is not caught there.
ComputeMetricPropagates ==
  /\ rpc = "metrics"
  /\ metric_index <= Len(NamesOf(selected_metrics))
  /\ LET name == NamesOf(selected_metrics)[metric_index]
     IN  IF name \notin METRIC_REGISTRY
         THEN /\ metric_index' = metric_index + 1
              /\ UNCHANGED <<metric_results, outcomes, rpc, record_index, skipped>>
         ELSE \E o \in JudgeOutcomes :
                /\ outcomes' = Append(outcomes, [name |-> name, o |-> o])
                /\ IF o.kind = "raise"
                   THEN /\ LogAndContinue("metric")
                        /\ UNCHANGED <<metric_index, metric_results>>
                   ELSE /\ metric_results' = Put(metric_results, name, MetricEntry(o))
                        /\ metric_index' = metric_index + 1
                        /\ UNCHANGED <<rpc, record_index, skipped>>
  /\ UNCHANGED <<records, selected_metrics, overall_score_weights, overall_score,
                 report_jsonl, attempted, raised>>
  /\ UNCHANGED fvars
  /\ UNCHANGED <<jvars, avars>>

\* One pass of the loop of compute_metrics without the registry test: the
\* lookup METRIC_REGISTRY[name] raises KeyError inside the try.
ComputeMetricNoRegistryTest ==
  /\ rpc = "metrics"
  /\ metric_index <= Len(NamesOf(selected_metrics))
  /\ LET name == NamesOf(selected_metrics)[metric_index]
     IN  IF name \notin METRIC_REGISTRY
         THEN /\ metric_results' = Put(metric_results, name,
                                       MetricEntry([kind |-> "raise", msg |-> name]))
              /\ UNCHANGED outcomes
         ELSE \E o \in JudgeOutcomes :
                /\ outcomes' = Append(outcomes, [name |-> name, o |-> o])
                /\ metric_results' = Put(metric_results, name, MetricEntry(o))
  /\ metric_index' = metric_index + 1
  /\ UNCHANGED <<records, selected_metrics, overall_score_weights, rpc, record_index,
                 overall_score, report_jsonl, attempted, skipped, raised>>
  /\ UNCHANGED fvars
  /\ UNCHANGED <<jvars, avars>>

\* One pass of the loop of compute_metrics (metrics.py:44-83).
ComputeMetric ==
  /\ rpc = "metrics"
  /\ metric_index <= Len(NamesOf(selected_metrics))
  /\ LET name == NamesOf(selected_metrics)[metric_index]
     IN  IF name \notin METRIC_REGISTRY
         THEN UNCHANGED <<metric_results, outcomes>>
         ELSE \E o \in JudgeOutcomes :
                /\ outcomes' = Append(outcomes, [name |-> name, o |-> o])
                /\ metric_results' = Put(metric_results, name, MetricEntry(o))
  /\ metric_index' = metric_index + 1
  /\ UNCHANGED <<records, selected_metrics, overall_score_weights, rpc, record_index,
                 overall_score, report_jsonl, attempted, skipped, raised>>
  /\ UNCHANGED fvars
  /\ UNCHANGED <<jvars, avars>>

\* compute_metrics returns; compute_overall_score (metrics.py:85, runner.py:117).
OverallScore ==
  /\ rpc = "metrics"
  /\ metric_index > Len(NamesOf(selected_metrics))
  /\ overall_score' = compute_overall_score(metric_results, overall_score_weights)
  /\ rpc' = "write"
  /\ UNCHANGED <<records, selected_metrics, overall_score_weights, record_index,
                 metric_index, metric_results, outcomes, report_jsonl, attempted,
                 skipped, raised>>
  /\ UNCHANGED fvars
  /\ UNCHANGED <<jvars, avars>>

\* The line of the record is put in front of the lines already in the log.
AppendLineInFront ==
  /\ rpc = "write"
  /\ \/ /\ report_jsonl' = <<[record_id |-> records[record_index],
                              metrics |-> metric_results,
                              overall_score |-> overall_score,
                              prompt_tokens |-> rag_result.prompt_tokens,
                              completion_tokens |-> rag_result.completion_tokens,
                              total_tokens |-> rag_result.total_tokens]>> \o report_jsonl
        /\ record_index' = record_index + 1
        /\ rpc' = "loop"
        /\ UNCHANGED skipped
     \/ /\ LogAndContinue("write")
        /\ UNCHANGED report_jsonl
  /\ UNCHANGED <<records, selected_metrics, overall_score_weights, metric_index,
                 metric_results, outcomes, overall_score, attempted, raised>>
  /\ UNCHANGED fvars
  /\ UNCHANGED <<jvars, avars>>

\* report.jsonl is opened in mode "w" instead of "a": the line of the record
\* replaces what the log held.
AppendLineTruncating ==
  /\ rpc = "write"
  /\ \/ /\ report_jsonl' = <<[record_id |-> records[record_index],
                              metrics |-> metric_results,
                              overall_score |-> overall_score,
                              prompt_tokens |-> rag_result.prompt_tokens,
                              completion_tokens |-> rag_result.completion_tokens,
                              total_tokens |-> rag_result.total_tokens]>>
        /\ record_index' = record_index + 1
        /\ rpc' = "loop"
        /\ UNCHANGED skipped
     \/ /\ LogAndContinue("write")
        /\ UNCHANGED report_jsonl
  /\ UNCHANGED <<records, selected_metrics, overall_score_weights, metric_index,
                 metric_results, outcomes, overall_score, attempted, raised>>
  /\ UNCHANGED fvars
  /\ UNCHANGED <<jvars, avars>>

\* The line of the record is appended to report.jsonl (runner.py:119-141),
\* or opening the file raises.
AppendLine ==
  /\ rpc = "write"
  /\ \/ /\ report_jsonl' = Append(report_jsonl,
                                  [record_id |-> records[record_index],
                                   metrics |-> metric_results,
                                   overall_score |-> overall_score,
                                   prompt_tokens |-> rag_result.prompt_tokens,
                                   completion_tokens |-> rag_result.completion_tokens,
                                   total_tokens |-> rag_result.total_tokens])
        /\ record_index' = record_index + 1
        /\ rpc' = "loop"
        /\ UNCHANGED skipped
     \/ /\ LogAndContinue("write")
        /\ UNCHANGED report_jsonl
  /\ UNCHANGED <<records, selected_metrics, overall_score_weights, metric_index,
                 metric_results, outcomes, overall_score, attempted, raised>>
  /\ UNCHANGED fvars
  /\ UNCHANGED <<jvars, avars>>

\* After the loop: generate_summary opens report.jsonl (runner.py:150,
\* reporting.py:20), which exists only if a line was appended, computes the
\* summary from its lines and writes summary.md and summary.json
\* (reporting.py:93-97); run_eval returns the run folder.
GenerateSummary ==
  /\ rpc = "loop"
  /\ record_index > Len(records)
  /\ IF report_jsonl = <<>>
     THEN rpc' = "raised" /\ raised' = "FileNotFoundError" /\ UNCHANGED <<summary, writes>>
     ELSE IF TokenSumRaises(report_jsonl)
     THEN rpc' = "raised" /\ raised' = "TypeError" /\ UNCHANGED <<summary, writes>>
     ELSE /\ summary' = generate_summary(report_jsonl)
          /\ writes' = writes \o <<"summary.md", "summary.json">>
          /\ rpc' = "returned"
          /\ UNCHANGED raised
  /\ UNCHANGED <<records, selected_metrics, overall_score_weights, record_index,
                 metric_index, metric_results, outcomes, overall_score, report_jsonl,
                 attempted, skipped, progress_callback, num_questions, dataset, metadata, progress, run_folder, rag_result>>
  /\ UNCHANGED <<jvars, avars>>

\* What the file at dataset_path may be: absent, not JSON, or a dataset
\* with a list of records (possibly empty).
DatasetFiles ==
  { [kind |-> "missing"], [kind |-> "malformed"] }
    \cup { [kind |-> "dataset", records |-> [i \in 1..n |-> RecordId(i)]] : n \in 0..MaxRecords }

\* What load_dataset(dataset_path) raises for the file, "none" if it returns
\* (dataset_loader.py:9-19; records has min_length=1, dataset_schema.py:20).
LoadError(file) ==
  IF file.kind = "missing" THEN "FileNotFoundError: Dataset not found"
  ELSE IF file.kind = "malformed" THEN "JSONDecodeError"
  ELSE IF Len(file.records) < 1 THEN "ValidationError"
  ELSE "none"

\* xs[:n] of Python: the first n elements, and for a negative n all but the
\* last -n.
PySlice(xs, n) ==
  LET stop == IF n >= 0 THEN (IF n < Len(xs) THEN n ELSE Len(xs))
              ELSE (IF Len(xs) + n > 0 THEN Len(xs) + n ELSE 0)
  IN  SubSeq(xs, 1, stop)

\* dataset.records after runner.py:66-67: num_questions cuts the records
\* when it is truthy (given and not 0) and less than their number.
FirstQuestions(all_records, n) ==
  IF n # <<>> /\ n[1] # 0 /\ n[1] < Len(all_records)
  THEN PySlice(all_records, n[1])
  ELSE all_records

\* The run folder is created before the dataset is loaded.
LoadDatasetAfterFolder ==
  /\ rpc = "load"
  /\ run_folder' = TRUE
  /\ \E file \in DatasetFiles :
       IF LoadError(file) # "none"
       THEN rpc' = "raised" /\ raised' = LoadError(file) /\ UNCHANGED <<records, dataset>>
       ELSE /\ rpc' = "folder"
            /\ dataset' = file.records
            /\ records' = FirstQuestions(file.records, num_questions)
            /\ UNCHANGED raised
  /\ UNCHANGED <<selected_metrics, overall_score_weights, record_index, metric_index,
                 metric_results, outcomes, overall_score, report_jsonl, attempted,
                 skipped, progress_callback, num_questions, metadata, progress, writes,
                 rag_result, summary>>
  /\ UNCHANGED <<jvars, avars>>

\* load_dataset(dataset_path), and the records cut to num_questions
\* (runner.py:64-67).
LoadDataset ==
  /\ rpc = "load"
  /\ \E file \in DatasetFiles :
       IF LoadError(file) # "none"
       THEN rpc' = "raised" /\ raised' = LoadError(file) /\ UNCHANGED <<records, dataset>>
       ELSE /\ rpc' = "folder"
            /\ dataset' = file.records
            /\ records' = FirstQuestions(file.records, num_questions)
            /\ UNCHANGED raised
  /\ UNCHANGED <<selected_metrics, overall_score_weights, record_index, metric_index,
                 metric_results, outcomes, overall_score, report_jsonl, attempted,
                 skipped, progress_callback, num_questions, metadata, progress,
                 run_folder, writes, rag_result, summary>>
  /\ UNCHANGED <<jvars, avars>>

\* create_run_folder(run_name) (runner.py:26-32, 71): mkdir, or it raises.
CreateRunFolder ==
  /\ rpc = "folder"
  /\ \/ rpc' = "config" /\ run_folder' = TRUE /\ UNCHANGED raised
     \/ rpc' = "raised" /\ raised' = "OSError: mkdir" /\ UNCHANGED run_folder
  /\ UNCHANGED <<records, selected_metrics, overall_score_weights, record_index,
                 metric_index, metric_results, outcomes, overall_score, report_jsonl,
                 attempted, skipped, progress_callback, num_questions, dataset, metadata, progress, writes, rag_result,
                 summary>>
  /\ UNCHANGED <<jvars, avars>>

\* save_config_snapshot(run_folder, settings) (runner.py:35-41, 74).
SaveConfigSnapshot ==
  /\ rpc = "config"
  /\ \/ rpc' = "metadata" /\ writes' = Append(writes, "config_snapshot.json")
        /\ UNCHANGED raised
     \/ rpc' = "raised" /\ raised' = "OSError: config_snapshot.json" /\ UNCHANGED writes
  /\ UNCHANGED <<records, selected_metrics, overall_score_weights, record_index,
                 metric_index, metric_results, outcomes, overall_score, report_jsonl,
                 attempted, skipped, progress_callback, num_questions, dataset, metadata, progress, run_folder, rag_result,
                 summary>>
  /\ UNCHANGED <<jvars, avars>>

\* The metadata is not written before the loop.
WriteMetadataLater ==
  /\ rpc = "metadata"
  /\ rpc' = "loop"
  /\ record_index' = 1
  /\ UNCHANGED <<records, selected_metrics, overall_score_weights, metric_index,
                 metric_results, outcomes, overall_score, report_jsonl, attempted,
                 skipped, raised, fvars>>
  /\ UNCHANGED <<jvars, avars>>

\* metadata.json is written (runner.py:76-87); the loop starts with i = 1.
WriteMetadata ==
  /\ rpc = "metadata"
  /\ \/ /\ rpc' = "loop"
        /\ writes' = Append(writes, "metadata.json")
        /\ metadata' = [num_questions |-> Len(records)]
        /\ record_index' = 1
        /\ UNCHANGED raised
     \/ /\ rpc' = "raised"
        /\ raised' = "OSError: metadata.json"
        /\ UNCHANGED <<writes, record_index, metadata>>
  /\ UNCHANGED <<records, selected_metrics, overall_score_weights, metric_index,
                 metric_results, outcomes, overall_score, report_jsonl, attempted,
                 skipped, progress_callback, num_questions, dataset, progress, run_folder,
                 rag_result, summary>>
  /\ UNCHANGED <<jvars, avars>>

\* The locals of run_eval before its loop has produced anything.
NothingYet ==
  /\ metric_index = 0
  /\ metric_results = <<>>
  /\ outcomes = <<>>
  /\ overall_score = FZero
  /\ report_jsonl = <<>>
  /\ attempted = <<>>
  /\ skipped = <<>>
  /\ raised = "none"
  /\ progress = <<>>
  /\ rag_result = None
  /\ summary = None
  /\ JudgeIdle
  /\ ApiIdle

\* run_eval at the top of its loop over the records: the run folder holds
\* the configuration snapshot and the metadata.
InitLoop ==
  /\ rpc = "loop"
  /\ record_index = 1
  /\ run_folder = TRUE
  /\ writes = <<"config_snapshot.json", "metadata.json">>
  /\ num_questions = <<>>
  /\ dataset = records
  /\ metadata = [num_questions |-> Len(records)]
  /\ NothingYet

\* One pass of the loop of run_eval, and what follows the loop.
NextLoop ==
  \/ Progress
  \/ Answer
  \/ ComputeMetric
  \/ OverallScore
  \/ AppendLine
  \/ GenerateSummary

NextRun ==
  \/ LoadDataset
  \/ CreateRunFolder
  \/ SaveConfigSnapshot
  \/ WriteMetadata
  \/ NextLoop

\* run_eval on a dataset of one record, for every request list and every
\* choice of weights, without a progress callback (as scripts/cli.py:139
\* calls it).
InitRecord ==
  /\ records = <<RecordId(1)>>
  /\ selected_metrics \in {NoneGiven} \cup {ListGiven(l) : l \in RequestLists}
  /\ overall_score_weights \in WeightChoices
  /\ progress_callback = "none"
  /\ InitLoop

SpecRecord == InitRecord /\ [][NextLoop]_vars

\* A call of run_eval, on every file a dataset path may name, with and
\* without a progress callback.
InitRun ==
  /\ rpc = "load"
  /\ records = <<>>
  /\ record_index = 0
  /\ run_folder = FALSE
  /\ writes = <<>>
  /\ selected_metrics \in {ListGiven(<<"correctness">>), ListGiven(<<"bleu", "faithfulness">>)}
  /\ overall_score_weights = <<>>
  /\ progress_callback \in {"none", "sink"}
  /\ num_questions = <<>>
  /\ dataset = <<>>
  /\ metadata = None
  /\ NothingYet

SpecRun == InitRun /\ [][NextRun]_vars

\* A call of run_eval with a progress callback and with num_questions
\* absent, zero, negative, or positive up to more than the dataset holds.
InitLimit ==
  /\ rpc = "load"
  /\ records = <<>>
  /\ record_index = 0
  /\ run_folder = FALSE
  /\ writes = <<>>
  /\ selected_metrics = ListGiven(<<"correctness">>)
  /\ overall_score_weights = <<>>
  /\ progress_callback = "sink"
  /\ num_questions \in {<<>>} \cup {<<n>> : n \in (0 - MaxRecords)..(MaxRecords + 1)}
  /\ dataset = <<>>
  /\ metadata = None
  /\ NothingYet

SpecLimit == InitLimit /\ [][NextRun]_vars

\* The most lines of a log handed to generate_summary.
MaxLines == 3

\* Lines a log may hold: metrics of one run or another, with and without
\* token data.
LogLines ==
  { [record_id |-> "q1",
     metrics |-> <<[k |-> "correctness", v |-> MetricEntry([kind |-> "ok", score |-> F08, verdict |-> "", samples |-> <<F08>>])]>>,
     overall_score |-> F08,
     prompt_tokens |-> <<12>>, completion_tokens |-> <<7>>, total_tokens |-> <<19>>],
    [record_id |-> "q2",
     metrics |-> <<[k |-> "correctness", v |-> MetricEntry([kind |-> "ok", score |-> F06, verdict |-> "", samples |-> <<F06>>])]>>,
     overall_score |-> F06,
     prompt_tokens |-> Null, completion_tokens |-> Null, total_tokens |-> Null],
    [record_id |-> "q3",
     metrics |-> <<[k |-> "correctness", v |-> MetricEntry([kind |-> "error", error |-> "Invalid score format in judge response"])]>>,
     overall_score |-> FZero,
     prompt_tokens |-> <<30>>, completion_tokens |-> <<6>>, total_tokens |-> <<36>>],
    [record_id |-> "q1",
     metrics |-> <<[k |-> "faithfulness", v |-> MetricEntry([kind |-> "ok", score |-> F02, verdict |-> "", samples |-> <<F02>>])]>>,
     overall_score |-> F02,
     prompt_tokens |-> Null, completion_tokens |-> Null, total_tokens |-> Null],
    [record_id |-> "q2",
     metrics |-> <<[k |-> "correctness", v |-> MetricEntry([kind |-> "ok", score |-> F04, verdict |-> "", samples |-> <<F04>>])],
                   [k |-> "faithfulness", v |-> MetricEntry([kind |-> "ok", score |-> F08, verdict |-> "", samples |-> <<F08>>])]>>,
     overall_score |-> F06,
     prompt_tokens |-> <<15>>, completion_tokens |-> <<4>>, total_tokens |-> <<19>>] }

\* generate_summary(run_folder, settings) on a run folder whose log holds
\* the given lines: run_eval after its loop, nothing else of it in play.
InitSummary ==
  /\ report_jsonl \in UNION { [1..n -> LogLines] : n \in 1..MaxLines }
  /\ rpc = "loop"
  /\ records = <<>>
  /\ record_index = 1
  /\ selected_metrics = NoneGiven
  /\ overall_score_weights = <<>>
  /\ progress_callback = "none"
  /\ num_questions = <<>>
  /\ dataset = <<>>
  /\ metadata = None
  /\ run_folder = TRUE
  /\ writes = <<"config_snapshot.json", "metadata.json">>
  /\ metric_index = 0
  /\ metric_results = <<>>
  /\ outcomes = <<>>
  /\ overall_score = FZero
  /\ attempted = <<>>
  /\ skipped = <<>>
  /\ raised = "none"
  /\ progress = <<>>
  /\ rag_result = None
  /\ summary = None
  /\ JudgeIdle
  /\ ApiIdle

NextSummary == GenerateSummary

SpecSummary == InitSummary /\ [][NextSummary]_vars

\* The most lines of a log of one run handed to generate_summary.
MaxWorstLines == 6

\* The metric scores a record of a run with the metrics correctness and
\* faithfulness may have got.
WorstScores ==
  { [correctness |-> F08, faithfulness |-> F04],
    [correctness |-> F04, faithfulness |-> F08],
    [correctness |-> F06, faithfulness |-> F06] }

\* The line run_eval appends for the i-th record with these scores, the
\* weights being empty.
LineOf(i, scores) ==
  LET metrics ==
        <<[k |-> "correctness",
           v |-> MetricEntry([kind |-> "ok", score |-> scores.correctness,
                              verdict |-> "", samples |-> <<scores.correctness>>])],
          [k |-> "faithfulness",
           v |-> MetricEntry([kind |-> "ok", score |-> scores.faithfulness,
                              verdict |-> "", samples |-> <<scores.faithfulness>>])]>>
  IN  [record_id |-> RecordId(i),
       metrics |-> metrics,
       overall_score |-> compute_overall_score(metrics, <<>>),
       prompt_tokens |-> Null, completion_tokens |-> Null, total_tokens |-> Null]

\* generate_summary on the log of a run that appended a line for every one
\* of its records.
InitWorst ==
  /\ \E n \in 1..MaxWorstLines :
       \E scores \in [1..n -> WorstScores] :
         report_jsonl = [i \in 1..n |-> LineOf(i, scores[i])]
  /\ rpc = "loop"
  /\ records = <<>>
  /\ record_index = 1
  /\ selected_metrics = ListGiven(<<"correctness", "faithfulness">>)
  /\ overall_score_weights = <<>>
  /\ progress_callback = "none"
  /\ num_questions = <<>>
  /\ dataset = <<>>
  /\ metadata = None
  /\ run_folder = TRUE
  /\ writes = <<"config_snapshot.json", "metadata.json">>
  /\ metric_index = 0
  /\ metric_results = <<>>
  /\ outcomes = <<>>
  /\ overall_score = FZero
  /\ attempted = <<>>
  /\ skipped = <<>>
  /\ raised = "none"
  /\ progress = <<>>
  /\ rag_result = None
  /\ summary = None
  /\ JudgeIdle
  /\ ApiIdle

SpecWorst == InitWorst /\ [][NextSummary]_vars

(***************************************************************************)
(* Claims about eval/metrics.py and eval/runner.py                         *)
(***************************************************************************)

KeySet(d) == {d[i].k : i \in 1..Len(d)}

Range(xs) == {xs[i] : i \in 1..Len(xs)}

ScoresOf(results) == [i \in 1..Len(results) |-> results[i].v.score]

\* The requested names that are registered, in the order requested.
RegisteredRequested == SelectSeq(NamesOf(selected_metrics), LAMBDA n : n \in METRIC_REGISTRY)

\* What the last judge call for name came to.
LastOutcome(name) ==
  outcomes[CHOOSE i \in 1..Len(outcomes) :
             /\ outcomes[i].name = name
             /\ \A j \in (i + 1)..Len(outcomes) : outcomes[j].name # name].o

\* C1: compute_metrics isolates metric failures. Whatever the judges come
\* to (result, error result, exception), no exception of a judge reaches
\* run_eval; when compute_metrics has returned, the judge of every
\* requested registered name has been called, in request order, and the
\* mapping holds one entry for each of them: score 0.0, empty samples and a
\* non-empty reason where the judge raised or returned an error, the judge's
\* score, verdict and samples otherwise; and the record's line, holding
\* this mapping, is appended unless answering or the file append failed.
C1_MetricFailuresIsolated ==
  /\ \A s \in 1..Len(skipped) : skipped[s].cause \in {"answer", "write"}
  /\ rpc = "write" =>
       /\ [i \in 1..Len(outcomes) |-> outcomes[i].name] = RegisteredRequested
       /\ KeySet(metric_results) = Range(RegisteredRequested)
       /\ Len(metric_results) = Cardinality(Range(RegisteredRequested))
       /\ \A name \in Range(RegisteredRequested) :
            LET o == LastOutcome(name)
                entry == Get(metric_results, name)
            IN  IF o.kind \in {"error", "raise"}
                THEN entry.score = FZero /\ entry.samples = <<>> /\ entry.reason # ""
                ELSE entry = [score |-> o.score, reason |-> o.verdict, samples |-> o.samples]
  /\ (rpc \in {"returned", "raised"} /\ skipped = <<>>) =>
       /\ Len(report_jsonl) = 1
       /\ report_jsonl[1].record_id = records[1]
       /\ report_jsonl[1].metrics = metric_results

\* C1 witness: the run returned with the record's line appended although
\* one judge raised and another returned an error, next to a normal result.
C1_Witness ==
  /\ rpc = "returned"
  /\ Len(report_jsonl) = 1
  /\ \E i, j, k \in 1..Len(outcomes) :
       /\ outcomes[i].o.kind = "raise"
       /\ outcomes[j].o.kind = "error"
       /\ outcomes[k].o.kind = "ok"
       /\ Get(report_jsonl[1].metrics, outcomes[k].name).score = F08

\* C2: a record whose processing raises is skipped and the run goes on. The
\* step that catches the exception appends no line, lets no exception leave
\* run_eval and moves on to the next record; a skipped record never has a
\* line; the records are attempted in dataset order, and when run_eval is
\* past its loop (it returned, or generate_summary found no log) every
\* record of the dataset has been attempted.
C2_SkipAndContinue ==
  /\ [][skipped' # skipped =>
          /\ report_jsonl' = report_jsonl
          /\ raised' = "none"
          /\ rpc' = "loop"
          /\ record_index' = record_index + 1
          /\ skipped' = Append(skipped, [record_id |-> records[record_index],
                                         cause |-> skipped'[Len(skipped')].cause])]_vars
  /\ [](\A s \in 1..Len(skipped) : \A l \in 1..Len(report_jsonl) :
          report_jsonl[l].record_id # skipped[s].record_id)
  /\ [](Len(attempted) <= Len(records) /\ attempted = SubSeq(records, 1, Len(attempted)))
  /\ []((rpc = "returned" \/ raised = "FileNotFoundError") => attempted = records)

\* C2 witness: answering the first record raised, the second record was
\* attempted and has its line, and run_eval returned.
C2_Witness ==
  /\ rpc = "returned"
  /\ Len(records) = 2
  /\ skipped = <<[record_id |-> RecordId(1), cause |-> "answer"]>>
  /\ attempted = records
  /\ Len(report_jsonl) = 1
  /\ report_jsonl[1].record_id = RecordId(2)

\* C8 as claimed: for every list of requested names (the empty list
\* included) the keys of the mapping compute_metrics returns are the
\* requested names that are in the registry.
C8_AsClaimed ==
  (rpc = "write" /\ ~selected_metrics.none) =>
    KeySet(metric_results) = Range(selected_metrics.list) \cap METRIC_REGISTRY

\* C8 (amended): for every non-empty list of requested names the keys of the
\* mapping compute_metrics returns are exactly the requested names that are
\* in the registry, each once, and no unknown name makes the call raise;
\* for the empty list, as for None, the keys are the four default metrics.
C8_KeysAreRequestedRegistered ==
  /\ \A s \in 1..Len(skipped) : skipped[s].cause # "metric"
  /\ rpc = "write" =>
       /\ Len(metric_results) = Cardinality(KeySet(metric_results))
       /\ IF selected_metrics.none \/ selected_metrics.list = <<>>
          THEN KeySet(metric_results) =
                 {"contextual_precision", "contextual_relevance", "correctness", "faithfulness"}
          ELSE KeySet(metric_results) = Range(selected_metrics.list) \cap METRIC_REGISTRY

\* C8 witness: an unknown name was requested between two known ones, and
\* the mapping returned holds exactly the two known ones.
C8_Witness ==
  /\ rpc = "write"
  /\ selected_metrics = ListGiven(<<"bleu", "correctness">>)
  /\ Keys(metric_results) = <<"correctness">>

\* C9: with the empty weight mapping compute_overall_score returns 0.0 when
\* no metric is present and otherwise the arithmetic mean of all metric
\* scores (as the double nearest to it, up to the rounding of the sum and of
\* the quotient); the scores 0.8 and 0.6 give exactly 0.7.
C9_UnweightedMean ==
  (rpc = "write" /\ overall_score_weights = <<>>) =>
    /\ metric_results = <<>> => overall_score = FZero
    /\ metric_results # <<>> => IsRoundedMean(overall_score, ScoresOf(metric_results))
    /\ ScoresOf(metric_results) = <<F08, F06>> => overall_score = F07

\* C9 witness: no weights, two metrics scored 0.8 and 0.6, overall 0.7.
C9_Witness ==
  /\ rpc = "write"
  /\ overall_score_weights = <<>>
  /\ ScoresOf(metric_results) = <<F08, F06>>
  /\ overall_score = F07

\* C10 as claimed: with weights configured but no weight key naming a
\* present metric, compute_overall_score returns the unweighted arithmetic
\* mean of all present metric scores.
C10_AsClaimed ==
  (rpc = "write" /\ overall_score_weights # <<>>
     /\ Matching(metric_results, overall_score_weights) = <<>>) =>
    /\ metric_results = <<>> => overall_score = FZero
    /\ metric_results # <<>> => IsRoundedMean(overall_score, ScoresOf(metric_results))

\* The exact product of a double x >= 0 and the magnitude of a double w with
\* an odd part below 64, as a significand and an exponent.
ExactProduct(x, w) ==
  IF IsZero(x) \/ IsZero(w) THEN FZero
  ELSE [s |-> 0, m |-> NMul(x.m, OddPart(w).n), e |-> x.e + OddPart(w).e]

\* The number of zero bits below the lowest set bit of a natural m > 0.
LowZerosOfNat(m) ==
  CHOOSE j \in 0..(Len(m) * LimbBits - 1) : NLowZero(m, j) /\ NBit(m, j) = 1

\* score is the sum of score_i * |w_i| divided by the sum of |w_i| over the
\* items ms of the weights that name a metric of results, up to
\* floating-point rounding (2^-50 of the value); nothing is asked when the
\* weights sum to zero, where the quotient is undefined.
IsWeightedMean(score, results, ms) ==
  LET S  == ExactSum([i \in 1..Len(ms) |-> ExactProduct(Get(results, ms[i].k).score, ms[i].v)])
      W  == ExactSum([i \in 1..Len(ms) |-> ms[i].v])
  IN  IF W.m = <<>> THEN TRUE
      ELSE IF S.m = <<>> THEN score = FZero
      ELSE /\ ~IsZero(score) /\ ~IsNaN(score) /\ score.s = 0
           /\ LET lz == LowZerosOfNat(W.m)
                  ae == score.e + W.e + lz
                  lo == IF ae < S.e THEN ae ELSE S.e
                  a  == NShl(NMul(score.m, NShr(W.m, lz)[1]), ae - lo)
                  b  == NShl(S.m, S.e - lo)
                  d  == IF NCmp(a, b) >= 0 THEN NSub(a, b) ELSE NSub(b, a)
              IN NCmp(NShl(d, 50), b) <= 0

\* C11 as claimed: with at least one weight key naming a present metric,
\* compute_overall_score returns the sum of score*weight divided by the sum
\* of weight over the metrics present in both mappings (weights of one
\* sign; weights {a: 1.0} over {a: 0.8, b: 0.6} give 0.8).
C11_AsClaimed ==
  (rpc = "write" /\ Matching(metric_results, overall_score_weights) # <<>>) =>
    /\ IsWeightedMean(overall_score, metric_results,
                      Matching(metric_results, overall_score_weights))
    /\ (overall_score_weights = <<[k |-> "contextual_precision", v |-> FOne]>>
          /\ Get(metric_results, "contextual_precision").score = F08) =>
         overall_score = F08

\* C11 (amended): with at least one weight key naming a present metric and
\* a positive sum of the weights of the present metrics,
\* compute_overall_score returns the sum of score*weight divided by the sum
\* of weight, both over exactly the metrics present in both mappings
\* (weights {a: 1.0} over {a: 0.8, b: 0.6} give 0.8); when that sum of
\* weights is zero or negative it returns 0.0.
C11_WeightedMean ==
  (rpc = "write" /\ Matching(metric_results, overall_score_weights) # <<>>) =>
    LET ms == Matching(metric_results, overall_score_weights)
    IN  /\ (\A i \in 1..Len(ms) : ms[i].v.s = 0 /\ ~IsZero(ms[i].v)) =>
             IsWeightedMean(overall_score, metric_results, ms)
        /\ (\A i \in 1..Len(ms) : ms[i].v.s = 1 \/ IsZero(ms[i].v)) =>
             overall_score = FZero
        /\ (overall_score_weights = <<[k |-> "contextual_precision", v |-> FOne]>>
              /\ Get(metric_results, "contextual_precision").score = F08) =>
             overall_score = F08

\* C11 witness: weights {contextual_precision: 1.0} over the scores
\* {contextual_precision: 0.8, correctness: 0.6}, overall 0.8.
C11_Witness ==
  /\ rpc = "write"
  /\ overall_score_weights = <<[k |-> "contextual_precision", v |-> FOne]>>
  /\ Keys(metric_results) = <<"contextual_precision", "correctness">>
  /\ ScoresOf(metric_results) = <<F08, F06>>
  /\ overall_score = F08

\* The record ids of the lines of the log, in the order of the lines.
LoggedIds == [k \in 1..Len(report_jsonl) |-> report_jsonl[k].record_id]

\* The positions in the dataset of the record with this id.
PositionsOf(record_id) == {i \in 1..Len(records) : records[i] = record_id}

\* C12: at every moment of a run the lines of the record log follow the
\* dataset order: every line is the line of a dataset record, a line further
\* down the log belongs to a record further down the dataset (so no record
\* has two lines and none precedes an earlier record's), and when run_eval
\* returns without having skipped a record the log lists the whole dataset
\* in its order.
C12_LogFollowsDatasetOrder ==
  /\ \A k \in 1..Len(report_jsonl) : PositionsOf(LoggedIds[k]) # {}
  /\ \A k, l \in 1..Len(report_jsonl) :
       k < l => \A i \in PositionsOf(LoggedIds[k]) :
                  \A j \in PositionsOf(LoggedIds[l]) : i < j
  /\ \A k \in 1..Len(report_jsonl) : PositionsOf(LoggedIds[k]) \subseteq 1..record_index
  /\ (rpc = "returned" /\ skipped = <<>>) => LoggedIds = records

\* C12 witness: a run over two records returned with both lines in the log.
C12_Witness ==
  /\ rpc = "returned"
  /\ Len(records) = 2
  /\ skipped = <<>>
  /\ LoggedIds = <<RecordId(1), RecordId(2)>>

\* The ids of the records skipped so far.
SkippedIds == {skipped[k].record_id : k \in 1..Len(skipped)}

\* C13: the record log is append-only and not buffered across records: every
\* step of a run leaves the lines already in the log where they are (the log
\* after the step extends the log before it), and whenever run_eval is about
\* to report the progress of a record or to call answer_question for it, the
\* line of every earlier record that was not skipped is in the log.
C13_AppendOnlyUnbuffered ==
  /\ [][/\ Len(report_jsonl') >= Len(report_jsonl)
        /\ SubSeq(report_jsonl', 1, Len(report_jsonl)) = report_jsonl]_vars
  /\ [](rpc \in {"loop", "answer"} =>
          \A j \in 1..(record_index - 1) :
            j <= Len(records) =>
              \/ records[j] \in SkippedIds
              \/ \E k \in 1..Len(report_jsonl) : LoggedIds[k] = records[j])

\* C13 witness: answer_question is about to be called for the second record
\* and the line of the first is in the log.
C13_Witness ==
  /\ rpc = "answer"
  /\ record_index = 2
  /\ skipped = <<>>
  /\ LoggedIds = <<RecordId(1)>>

\* How many times the file of this name was written to the run folder.
TimesWritten(file) == Cardinality({k \in 1..Len(writes) : writes[k] = file})

\* C14: run_eval writes config_snapshot.json and metadata.json at most once
\* each at any moment of a run, and each has been written exactly once, the
\* snapshot first, from the moment the loop is entered: before the first
\* progress report, before the first call of answer_question, and still when
\* run_eval returns or raises later on.
C14_SnapshotAndMetadataOnceBeforeRecords ==
  /\ TimesWritten("config_snapshot.json") <= 1
  /\ TimesWritten("metadata.json") <= 1
  /\ (\/ rpc \in {"loop", "answer", "metrics", "write", "returned"}
      \/ progress # <<>>
      \/ attempted # <<>>)
     => /\ TimesWritten("config_snapshot.json") = 1
        /\ TimesWritten("metadata.json") = 1
        /\ SubSeq(writes, 1, 2) = <<"config_snapshot.json", "metadata.json">>

\* C14 witness: the first progress report was made, answer_question is about
\* to be called for the first time, and both files are written.
C14_Witness ==
  /\ rpc = "answer"
  /\ attempted = <<>>
  /\ Len(progress) = 1
  /\ writes = <<"config_snapshot.json", "metadata.json">>

\* C15: the invocations of the progress callback are, in order, those for
\* the records 1, 2, ... of the dataset, each with the number of the record,
\* the total n and the question of the record; the invocation for a record
\* is made before answer_question is called for it and after every earlier
\* record was appended or skipped; and when the loop has gone over all n
\* records the callback was invoked exactly n times, for the records that
\* were skipped as for the others. Without a callback nothing is reported.
C15_ProgressOncePerRecord ==
  /\ progress_callback = "none" => progress = <<>>
  /\ \A k \in 1..Len(progress) :
       progress[k] = [current |-> k, total |-> Len(records),
                      question |-> QuestionOf(records[k])]
  /\ progress_callback # "none" =>
       /\ rpc = "loop" => Len(progress) = record_index - 1
       /\ rpc \in {"answer", "metrics", "write"} => Len(progress) = record_index
       /\ rpc = "answer" => Len(attempted) = Len(progress) - 1
       /\ Len(attempted) <= Len(progress)
       /\ Len(progress) > 0 =>
            Len(report_jsonl) + Len(skipped) >= Len(progress) - 1
       /\ (rpc = "returned" \/ raised = "FileNotFoundError") =>
            /\ Len(progress) = Len(records)
            /\ \A k \in 1..Len(skipped) :
                 \E j \in 1..Len(progress) :
                   progress[j].question = QuestionOf(skipped[k].record_id)

\* C15 witness: a run over two records with a callback returned; the first
\* record was skipped, and both were reported.
C15_Witness ==
  /\ rpc = "returned"
  /\ progress_callback = "sink"
  /\ Len(records) = 2
  /\ Len(skipped) = 1
  /\ skipped[1].record_id = RecordId(1)
  /\ progress = <<[current |-> 1, total |-> 2, question |-> QuestionOf(RecordId(1))],
                  [current |-> 2, total |-> 2, question |-> QuestionOf(RecordId(2))]>>

\* What run_eval raises before its loop: the failures of load_dataset, of
\* create_run_folder and of the two initial writes.
StartErrors ==
  {LoadError(file) : file \in DatasetFiles} \cup
  {"OSError: mkdir", "OSError: config_snapshot.json", "OSError: metadata.json"}

\* C16 as claimed: when the dataset was loaded and the configuration
\* snapshot and the metadata were written, run_eval (called without a
\* progress callback) does not end by raising, whichever of the records
\* raise while they are processed: the only exceptions that leave run_eval
\* are those of its start.
C16_AsClaimed ==
  (progress_callback = "none" /\ rpc = "raised") => raised \in StartErrors

\* C17 as claimed: a failure of the append of a record's line is not
\* handled as a skipped record: it leaves run_eval, and the record whose
\* line failed is the last one attempted.
C17_AsClaimed ==
  \A k \in 1..Len(skipped) :
    skipped[k].cause = "write" =>
      /\ rpc = "raised"
      /\ attempted[Len(attempted)] = skipped[k].record_id

\* What load_dataset raises for the files it does not accept.
LoadErrors == {LoadError(file) : file \in DatasetFiles} \ {"none"}

\* C18: when load_dataset raised (for a missing file, for content that is
\* not JSON, for an empty list of records), run_eval has raised it to its
\* caller with nothing created: no run folder, no configuration snapshot,
\* no metadata file, no record log, no progress report, no record attempted;
\* and a run that got past load_dataset has at least one record.
C18_LoadFailureCreatesNothing ==
  /\ raised \in LoadErrors =>
       /\ rpc = "raised"
       /\ ~run_folder
       /\ writes = <<>>
       /\ report_jsonl = <<>>
       /\ progress = <<>>
       /\ attempted = <<>>
       /\ records = <<>>
  /\ rpc \notin {"load", "raised"} => Len(records) >= 1
  /\ run_folder => Len(records) >= 1

\* C18 witness: run_eval raised the validation error of a dataset whose
\* list of records is empty.
C18_Witness ==
  /\ rpc = "raised"
  /\ raised = "ValidationError"
  /\ ~run_folder

\* The lines of the log whose metrics hold this name.
LinesWith(name) == SelectSeq(report_jsonl, LAMBDA r : HasKey(r.metrics, name))

\* C19 as claimed: the summary generate_summary returns for a log has the
\* number of lines of the log as total_questions, the mean of the lines'
\* overall_score as average_overall_score, and for every metric in a line of
\* the log an average that is the mean of the metric's score over the lines
\* that hold the metric.
C19_AsClaimed ==
  rpc = "returned" =>
    /\ summary.total_questions = Len(report_jsonl)
    /\ IsRoundedMean(summary.average_overall_score,
                     [i \in 1..Len(report_jsonl) |-> report_jsonl[i].overall_score])
    /\ \A i \in 1..Len(report_jsonl) :
         \A name \in KeySet(report_jsonl[i].metrics) :
           /\ HasKey(summary.metric_averages, name)
           /\ IsRoundedMean(Get(summary.metric_averages, name),
                            [j \in 1..Len(LinesWith(name)) |->
                               Get(LinesWith(name)[j].metrics, name).score])

\* The lines of the log that report token data.
LinesWithTokens == SelectSeq(report_jsonl, LAMBDA r : r.total_tokens # Null)

\* average is absent when no line reports token data, and otherwise the mean
\* of the given counts, one of each line that does.
IsTokenAverage(average, counts) ==
  IF counts = <<>> THEN average = Null
  ELSE /\ Len(average) = 1
       /\ IsRoundedMean(average[1], [i \in 1..Len(counts) |-> FloatOfNat(counts[i])])

\* C20: generate_summary returns a summary for every log whose lines carry
\* token data or none, and each of its three token averages is the mean of
\* the field over exactly the lines that report token data, and null when no
\* line does.
C20_TokenAveragesOverReportingLines ==
  /\ raised = "none"
  /\ rpc = "returned" =>
       LET n == Len(LinesWithTokens)
       IN  /\ IsTokenAverage(summary.average_prompt_tokens,
                             [i \in 1..n |-> LinesWithTokens[i].prompt_tokens[1]])
           /\ IsTokenAverage(summary.average_completion_tokens,
                             [i \in 1..n |-> LinesWithTokens[i].completion_tokens[1]])
           /\ IsTokenAverage(summary.average_total_tokens,
                             [i \in 1..n |-> LinesWithTokens[i].total_tokens[1]])

\* C20 witness: the summary of a log of one line with 19 tokens in total and
\* one line without token data has 19.0 as average of the total tokens.
C20_Witness ==
  /\ rpc = "returned"
  /\ Len(report_jsonl) = 2
  /\ report_jsonl[1].total_tokens = <<19>>
  /\ report_jsonl[2].total_tokens = Null
  /\ summary.average_total_tokens = <<FloatOfNat(19)>>

\* The position in the log of the line of the record with this id.
LinePosition(record_id) ==
  CHOOSE i \in 1..Len(report_jsonl) : report_jsonl[i].record_id = record_id

\* The line at position i comes before the line at position j in the order
\* ascending by key, ties in log order.
WorseThan(key, i, j) ==
  \/ FLt(key[i], key[j])
  \/ (key[i] = key[j] /\ i < j)

\* ids are the ids of the first min(n, number of lines) lines of the log in
\* the order ascending by key with ties in log order.
IsStableWorst(ids, n, key) ==
  LET pos == [j \in 1..Len(ids) |-> LinePosition(ids[j])]
  IN  /\ Len(ids) = (IF n < Len(report_jsonl) THEN n ELSE Len(report_jsonl))
      /\ \A j \in 1..Len(ids) :
           \E i \in 1..Len(report_jsonl) : report_jsonl[i].record_id = ids[j]
      /\ \A j \in 1..(Len(ids) - 1) : WorseThan(key, pos[j], pos[j + 1])
      /\ \A i \in 1..Len(report_jsonl) :
           (\A j \in 1..Len(ids) : pos[j] # i) =>
             WorseThan(key, pos[Len(ids)], i)

\* C21: in the summary of the log of a run, worst_overall lists the first
\* min(5, n) of the n lines in the order ascending by overall score with
\* ties in log order, each with its overall score, and worst_by_metric
\* lists for each metric the first min(3, n) lines in the order ascending by
\* the score of that metric with ties in log order, each with that score.
C21_WorstAreStablePartialSort ==
  rpc = "returned" =>
    /\ IsStableWorst([j \in 1..Len(summary.worst_overall) |->
                        summary.worst_overall[j].record_id],
                     TOP_N_WORST,
                     [i \in 1..Len(report_jsonl) |-> report_jsonl[i].overall_score])
    /\ \A j \in 1..Len(summary.worst_overall) :
         summary.worst_overall[j].overall_score =
           report_jsonl[LinePosition(summary.worst_overall[j].record_id)].overall_score
    /\ Keys(summary.worst_by_metric) = <<"correctness", "faithfulness">>
    /\ \A m \in 1..Len(summary.worst_by_metric) :
         LET name == summary.worst_by_metric[m].k
             worst == summary.worst_by_metric[m].v
         IN  /\ IsStableWorst([j \in 1..Len(worst) |-> worst[j].record_id],
                              METRIC_N_WORST,
                              [i \in 1..Len(report_jsonl) |->
                                 Get(report_jsonl[i].metrics, name).score])
             /\ \A j \in 1..Len(worst) :
                  worst[j].score =
                    Get(report_jsonl[LinePosition(worst[j].record_id)].metrics, name).score

\* C21 witness: a log of six lines of which the second and the fourth have
\* the lowest overall score and four others tie above them: worst_overall
\* holds five of the six, the ties in log order, and worst_by_metric three.
C21_Witness ==
  /\ rpc = "returned"
  /\ Len(report_jsonl) = 6
  /\ [j \in 1..Len(summary.worst_overall) |-> summary.worst_overall[j].record_id]
       = <<RecordId(2), RecordId(4), RecordId(1), RecordId(3), RecordId(5)>>
  /\ Len(Get(summary.worst_by_metric, "correctness")) = 3

\* C26 as claimed: an exception the progress callback raises does not leave
\* run_eval, and every record the callback was called for is attempted: in
\* a run with a callback, from the call of answer_question on, the records
\* reported and the records attempted are the same in number.
C26_AsClaimed ==
  /\ raised # "progress_callback"
  /\ (progress_callback # "none" /\ rpc \in {"metrics", "write", "returned", "raised"})
       => Len(attempted) = Len(progress)

\* The first n elements of xs, all of them when xs has fewer.
Prefix(xs, n) == SubSeq(xs, 1, IF n < Len(xs) THEN n ELSE Len(xs))

\* C30 as claimed: the records run_eval goes over are the first
\* min(N, len) of the dataset for num_questions = N >= 1 and the whole
\* dataset for num_questions absent, 0 or negative; the num_questions of the
\* metadata and the total of every progress report are their number, and
\* when run_eval returns these are the records attempted.
C30_AsClaimed ==
  rpc \notin {"load", "raised"} =>
    /\ records = (IF num_questions # <<>> /\ num_questions[1] >= 1
                  THEN Prefix(dataset, num_questions[1])
                  ELSE dataset)
    /\ metadata # None => metadata.num_questions = Len(records)
    /\ \A k \in 1..Len(progress) : progress[k].total = Len(records)
    /\ rpc = "returned" => attempted = records

(***************************************************************************)
(* The judge parameters: api/config_manager.py, eval/judges.py             *)
(***************************************************************************)

\* Values of Settings.judge_model (config.py:41).
JudgeModels == {"gpt-4o-mini", "gpt-4o"}

\* The judge parameters a Settings object holds (config.py:41-52, 117).
JudgeParameters ==
  [judge_model : JudgeModels,
   judge_num_samples : 1..MaxSamples,
   include_metric_reasons : BOOLEAN]

\* config_overrides of a request (eval_router.py:37): for each parameter
\* no entry (<<>>) or a value.
ConfigOverrides ==
  [judge_model : {<<>>} \cup {<<m>> : m \in JudgeModels},
   judge_num_samples : {<<>>} \cup {<<n>> : n \in 1..MaxSamples},
   include_metric_reasons : {<<>>} \cup {<<b>> : b \in BOOLEAN}]

\* get_config_with_overrides(overrides) (config_manager.py:51-72): the
\* default configuration updated with the overrides; without overrides
\* start_evaluation takes the default configuration (eval_router.py:77-80).
get_config_with_overrides(base_config, overrides) ==
  [judge_model |->
     IF overrides.judge_model = <<>> THEN base_config.judge_model
     ELSE overrides.judge_model[1],
   judge_num_samples |->
     IF overrides.judge_num_samples = <<>> THEN base_config.judge_num_samples
     ELSE overrides.judge_num_samples[1],
   include_metric_reasons |->
     IF overrides.include_metric_reasons = <<>> THEN base_config.include_metric_reasons
     ELSE overrides.include_metric_reasons[1]]

\* get_settings() (config.py:141-146): a new Settings object, read from
\* .env and the field defaults.
get_settings == environment

\* start_evaluation resolves the settings of the run (eval_router.py:73-82).
ResolveSettings ==
  /\ environment # None
  /\ settings = None
  /\ \E overrides \in ConfigOverrides :
       settings' = get_config_with_overrides(environment, overrides)
  /\ UNCHANGED <<environment, config_snapshot, judge_settings, clock, utc_offset,
                 eval_tasks, run_dirs, jobs, response>>
  /\ UNCHANGED <<jvars, rvars>>

\* run_eval dumps the settings it was given to config_snapshot.json
\* (runner.py:35-41, 74).
DumpSettings ==
  /\ settings # None
  /\ config_snapshot = None
  /\ config_snapshot' = settings
  /\ UNCHANGED <<environment, settings, judge_settings, clock, utc_offset,
                 eval_tasks, run_dirs, jobs, response>>
  /\ UNCHANGED <<jvars, rvars>>

\* compute_metrics calls a judge function without the settings
\* (metrics.py:54-59); the judge function loads its parameters with
\* get_settings() (judges.py:99-104).
JudgeLoadsSettings ==
  /\ config_snapshot # None
  /\ judge_settings = None
  /\ judge_settings' = get_settings
  /\ UNCHANGED <<environment, settings, config_snapshot, clock, utc_offset,
                 eval_tasks, run_dirs, jobs, response>>
  /\ UNCHANGED <<jvars, rvars>>

\* A request to start a run arrives, for every environment and every
\* choice of overrides.
InitSettings ==
  /\ environment \in JudgeParameters
  /\ settings = None
  /\ config_snapshot = None
  /\ judge_settings = None
  /\ clock = 0
  /\ utc_offset = 0
  /\ eval_tasks = <<>>
  /\ run_dirs = <<>>
  /\ jobs = <<>>
  /\ response = None
  /\ RunnerIdle
  /\ JudgeIdle

NextSettings ==
  \/ ResolveSettings
  \/ DumpSettings
  \/ JudgeLoadsSettings

SpecSettings == InitSettings /\ [][NextSettings]_vars

\* C27 as claimed: the parameters a judge function runs with are those of
\* the settings object given to run_eval, which are those of the
\* configuration snapshot, whatever the overrides of the request.
C27_AsClaimed ==
  judge_settings # None =>
    /\ config_snapshot = settings
    /\ judge_settings = settings

(***************************************************************************)
(* api/routers/eval_router.py, with the runs it starts in the background   *)
(***************************************************************************)

\* The latest second of the wall clock.
MaxClock == 1

\* The number of records of the dataset a run started by the router
\* evaluates.
MaxApiRecords == 1

\* run_name of a request; "eval" is what start_evaluation takes when the
\* request gives none (eval_router.py:86).
RunNames == {"eval", "nightly"}

\* Local time minus UTC on the server, in seconds: UTC, or one hour ahead.
UtcOffsets == {0, 3600}

\* f"{timestamp}_{run_name}" with the timestamp "%Y%m%d_%H%M%S" of the given
\* second (eval_router.py:85-87, runner.py:28-29): two such strings are the
\* same exactly when second and name are.
StampedName(second, name) == [stamp |-> second, name |-> name]

\* d without the key k.
Remove(d, k) == SelectSeq(d, LAMBDA x : x.k # k)

\* _eval_tasks[run_id]["status"], "absent" without the entry.
StatusOf(run_id) ==
  IF HasKey(eval_tasks, run_id) THEN Get(eval_tasks, run_id).status ELSE "absent"

\* _eval_tasks[run_id]["status"] = status in the except-protected body of
\* run_evaluation_task (eval_router.py:121-130): without the entry the
\* assignment raises KeyError and the registry stays as it is.
SetStatus(run_id, status) ==
  IF HasKey(eval_tasks, run_id)
  THEN Put(eval_tasks, run_id, [status |-> status])
  ELSE eval_tasks

\* A run folder as mkdir creates it.
EmptyFolder == [metadata |-> None, report |-> <<>>, summary |-> FALSE]

\* start_evaluation (eval_router.py:62-139): the run id is made of the
\* local time and the run name, the run is registered as running, the task
\* is handed to the background tasks and the request is answered.
StartEvaluation(name) ==
  /\ Len(jobs) < 2
  /\ LET run_id == StampedName(clock + utc_offset, name)
     IN  /\ eval_tasks' = Put(eval_tasks, run_id, [status |-> "running"])
         /\ jobs' = Append(jobs, [run_id |-> run_id, run_name |-> name, pc |-> "queued",
                                  folder |-> None, i |-> 0])
         /\ response' = [op |-> "start", id |-> run_id, code |-> 200]
  /\ UNCHANGED <<environment, settings, config_snapshot, judge_settings, clock, utc_offset,
                 run_dirs>>
  /\ UNCHANGED <<jvars, rvars>>

\* run_evaluation_task begins (eval_router.py:99-119): without the
\* registry entry of its id the first assignment raises KeyError and the
\* task ends; otherwise run_eval loads the dataset (runner.py:64), or
\* load_dataset raises and the task sets the status to error
\* (eval_router.py:127-130).
TaskLoad(j) ==
  /\ jobs[j].pc = "queued"
  /\ IF ~HasKey(eval_tasks, jobs[j].run_id)
     THEN /\ jobs' = [jobs EXCEPT ![j].pc = "raised"]
          /\ UNCHANGED eval_tasks
     ELSE \/ /\ jobs' = [jobs EXCEPT ![j].pc = "folder"]
             /\ UNCHANGED eval_tasks
          \/ /\ jobs' = [jobs EXCEPT ![j].pc = "raised"]
             /\ eval_tasks' = SetStatus(jobs[j].run_id, "error")
  /\ UNCHANGED <<environment, settings, config_snapshot, judge_settings, clock, utc_offset,
                 run_dirs, response>>
  /\ UNCHANGED <<jvars, rvars>>

\* create_run_folder(run_name) (runner.py:26-32, 71): the folder is named
\* after the UTC time of this call and the run name, and mkdir accepts a
\* folder that exists; the configuration snapshot and the metadata are
\* written into it (runner.py:74-87), over those it may hold.
TaskCreateFolder(j) ==
  /\ jobs[j].pc = "folder"
  /\ LET folder == StampedName(clock, jobs[j].run_name)
         content == IF HasKey(run_dirs, folder) THEN Get(run_dirs, folder) ELSE EmptyFolder
     IN  /\ run_dirs' = Put(run_dirs, folder, [content EXCEPT !.metadata = [job |-> j]])
         /\ jobs' = [jobs EXCEPT ![j].pc = "loop", ![j].folder = folder, ![j].i = 1]
  /\ UNCHANGED <<environment, settings, config_snapshot, judge_settings, clock, utc_offset,
                 eval_tasks, response>>
  /\ UNCHANGED <<jvars, rvars>>

\* The lines of a log that end with their terminator.
CompleteLines(report) == SelectSeq(report, LAMBDA line : line.complete)

\* update_progress, called before each record outside the try of the loop
\* (runner.py:98-99, eval_router.py:106-109): without the registry entry
\* it raises KeyError, run_eval raises, and so does the handler of the task
\* (eval_router.py:128).
TaskCallbackFails(j) ==
  /\ jobs[j].pc = "loop"
  /\ jobs[j].i <= MaxApiRecords
  /\ ~HasKey(eval_tasks, jobs[j].run_id)
  /\ jobs' = [jobs EXCEPT ![j].pc = "raised"]
  /\ UNCHANGED <<environment, settings, config_snapshot, judge_settings, clock, utc_offset,
                 eval_tasks, run_dirs, response>>
  /\ UNCHANGED <<jvars, rvars>>

\* A pass of the loop of run_eval in which the record is skipped
\* (runner.py:143-145): answer_question raised, or the log could not be
\* opened because the folder is gone.
TaskSkip(j) ==
  /\ jobs[j].pc = "loop"
  /\ jobs[j].i <= MaxApiRecords
  /\ HasKey(eval_tasks, jobs[j].run_id)
  /\ jobs' = [jobs EXCEPT ![j].i = jobs[j].i + 1]
  /\ UNCHANGED <<environment, settings, config_snapshot, judge_settings, clock, utc_offset,
                 eval_tasks, run_dirs, response>>
  /\ UNCHANGED <<jvars, rvars>>

\* The line of the record is being written to report.jsonl, opened for
\* append (runner.py:140-141): the first bytes of the line are in the file,
\* the rest and the terminator are not yet.
TaskAppendBegin(j) ==
  /\ jobs[j].pc = "loop"
  /\ jobs[j].i <= MaxApiRecords
  /\ HasKey(eval_tasks, jobs[j].run_id)
  /\ HasKey(run_dirs, jobs[j].folder)
  /\ LET content == Get(run_dirs, jobs[j].folder)
         line == [job |-> j, record_id |-> RecordId(jobs[j].i), complete |-> FALSE]
     IN  run_dirs' = Put(run_dirs, jobs[j].folder,
                         [content EXCEPT !.report = Append(content.report, line)])
  /\ jobs' = [jobs EXCEPT ![j].pc = "writing"]
  /\ UNCHANGED <<environment, settings, config_snapshot, judge_settings, clock, utc_offset,
                 eval_tasks, response>>
  /\ UNCHANGED <<jvars, rvars>>

\* The rest of the line and its terminator reach the file; when the folder
\* was removed meanwhile they go to the unlinked file.
TaskAppendEnd(j) ==
  /\ jobs[j].pc = "writing"
  /\ IF HasKey(run_dirs, jobs[j].folder)
     THEN LET content == Get(run_dirs, jobs[j].folder)
          IN  run_dirs' = Put(run_dirs, jobs[j].folder,
                [content EXCEPT !.report =
                   [k \in 1..Len(content.report) |->
                      IF content.report[k].job = j
                      THEN [content.report[k] EXCEPT !.complete = TRUE]
                      ELSE content.report[k]]])
     ELSE UNCHANGED run_dirs
  /\ jobs' = [jobs EXCEPT ![j].pc = "loop", ![j].i = jobs[j].i + 1]
  /\ UNCHANGED <<environment, settings, config_snapshot, judge_settings, clock, utc_offset,
                 eval_tasks, response>>
  /\ UNCHANGED <<jvars, rvars>>

\* After the loop generate_summary reads the log (runner.py:150,
\* reporting.py:20-26): it raises when the log is missing or holds a line
\* that is not whole, and run_eval returns otherwise; the task sets the
\* status to completed or to error (eval_router.py:121-130).
TaskFinish(j) ==
  /\ jobs[j].pc = "loop"
  /\ jobs[j].i > MaxApiRecords
  /\ LET readable ==
           /\ HasKey(run_dirs, jobs[j].folder)
           /\ Get(run_dirs, jobs[j].folder).report # <<>>
           /\ \A k \in 1..Len(Get(run_dirs, jobs[j].folder).report) :
                Get(run_dirs, jobs[j].folder).report[k].complete
     IN  IF readable
         THEN /\ run_dirs' = Put(run_dirs, jobs[j].folder,
                                 [Get(run_dirs, jobs[j].folder) EXCEPT !.summary = TRUE])
              /\ eval_tasks' = SetStatus(jobs[j].run_id, "completed")
              /\ jobs' = [jobs EXCEPT ![j].pc = "returned"]
         ELSE /\ UNCHANGED run_dirs
              /\ eval_tasks' = SetStatus(jobs[j].run_id, "error")
              /\ jobs' = [jobs EXCEPT ![j].pc = "raised"]
  /\ UNCHANGED <<environment, settings, config_snapshot, judge_settings, clock, utc_offset,
                 response>>
  /\ UNCHANGED <<jvars, rvars>>

\* A second passes.
Tick ==
  /\ clock < MaxClock
  /\ clock' = clock + 1
  /\ UNCHANGED <<environment, settings, config_snapshot, judge_settings, utc_offset,
                 eval_tasks, run_dirs, jobs, response>>
  /\ UNCHANGED <<jvars, rvars>>

\* The ids a client may ask for: those start_evaluation returned and the
\* folder names list_runs gives.
KnownIds == KeySet(eval_tasks) \cup KeySet(run_dirs)

\* get_run_details (eval_router.py:226-300): without the folder the
\* registry entry, or 404; with it the files of the folder, every non-blank
\* line of the log parsed as JSON, 500 when one cannot be parsed.
GetRunDetails(run_id) ==
  /\ response' =
       IF ~HasKey(run_dirs, run_id)
       THEN IF HasKey(eval_tasks, run_id)
            THEN [op |-> "details", id |-> run_id, code |-> 200,
                  status |-> StatusOf(run_id), results |-> <<>>]
            ELSE [op |-> "details", id |-> run_id, code |-> 404]
       ELSE LET report == Get(run_dirs, run_id).report
            IN  IF \E k \in 1..Len(report) : ~report[k].complete
                THEN [op |-> "details", id |-> run_id, code |-> 500]
                ELSE [op |-> "details", id |-> run_id, code |-> 200,
                      status |-> IF HasKey(eval_tasks, run_id) THEN StatusOf(run_id)
                                 ELSE "completed",
                      results |-> report]
  /\ UNCHANGED <<environment, settings, config_snapshot, judge_settings, clock, utc_offset,
                 eval_tasks, run_dirs, jobs>>
  /\ UNCHANGED <<jvars, rvars>>

\* list_runs (eval_router.py:142-223): one entry per folder, from the
\* registry when the folder name is a key of it, from the files of the
\* folder otherwise, as a completed run; a folder whose log cannot be parsed
\* is left out.
ListRuns ==
  /\ response' =
       [op |-> "list",
        code |-> 200,
        runs |-> { [run_id |-> f,
                    status |-> IF HasKey(eval_tasks, f) THEN StatusOf(f) ELSE "completed",
                    num_questions |-> IF HasKey(eval_tasks, f) THEN 0
                                      ELSE Len(Get(run_dirs, f).report)] :
                   f \in { g \in KeySet(run_dirs) :
                             \/ HasKey(eval_tasks, g)
                             \/ \A k \in 1..Len(Get(run_dirs, g).report) :
                                  Get(run_dirs, g).report[k].complete } }]
  /\ UNCHANGED <<environment, settings, config_snapshot, judge_settings, clock, utc_offset,
                 eval_tasks, run_dirs, jobs>>
  /\ UNCHANGED <<jvars, rvars>>

\* delete_run (eval_router.py:322-344): 404 without the folder, 409 when
\* the id is registered as running, and otherwise the folder is removed and
\* with it the registry entry of the id, if there is one.
DeleteRun(run_id) ==
  /\ IF ~HasKey(run_dirs, run_id)
     THEN /\ response' = [op |-> "delete", id |-> run_id, code |-> 404]
          /\ UNCHANGED <<run_dirs, eval_tasks>>
     ELSE IF StatusOf(run_id) = "running"
     THEN /\ response' = [op |-> "delete", id |-> run_id, code |-> 409]
          /\ UNCHANGED <<run_dirs, eval_tasks>>
     ELSE /\ run_dirs' = Remove(run_dirs, run_id)
          /\ eval_tasks' = Remove(eval_tasks, run_id)
          /\ response' = [op |-> "delete", id |-> run_id, code |-> 200]
  /\ UNCHANGED <<environment, settings, config_snapshot, judge_settings, clock, utc_offset,
                 jobs>>
  /\ UNCHANGED <<jvars, rvars>>

\* The server has started: no run, no folder, the clock at its first second.
InitApi ==
  /\ environment = None
  /\ settings = None
  /\ config_snapshot = None
  /\ judge_settings = None
  /\ clock = 0
  /\ utc_offset \in UtcOffsets
  /\ eval_tasks = <<>>
  /\ run_dirs = <<>>
  /\ jobs = <<>>
  /\ response = None
  /\ RunnerIdle
  /\ JudgeIdle

\* Requests that start and delete runs, the runs in the background, and the
\* clock.
NextApi ==
  \/ \E name \in RunNames : StartEvaluation(name)
  \/ \E j \in 1..Len(jobs) : TaskLoad(j)
  \/ \E j \in 1..Len(jobs) : TaskCreateFolder(j)
  \/ \E j \in 1..Len(jobs) : TaskCallbackFails(j)
  \/ \E j \in 1..Len(jobs) : TaskSkip(j)
  \/ \E j \in 1..Len(jobs) : TaskAppendBegin(j)
  \/ \E j \in 1..Len(jobs) : TaskAppendEnd(j)
  \/ \E j \in 1..Len(jobs) : TaskFinish(j)
  \/ \E run_id \in KnownIds : DeleteRun(run_id)
  \/ Tick

SpecApi == InitApi /\ [][NextApi]_vars


\* Runs started within one second, none deleted, and clients that read them
\* while they are written.
NextReader ==
  \/ \E name \in RunNames : StartEvaluation(name)
  \/ \E j \in 1..Len(jobs) : TaskLoad(j)
  \/ \E j \in 1..Len(jobs) : TaskCreateFolder(j)
  \/ \E j \in 1..Len(jobs) : TaskSkip(j)
  \/ \E j \in 1..Len(jobs) : TaskAppendBegin(j)
  \/ \E j \in 1..Len(jobs) : TaskAppendEnd(j)
  \/ \E j \in 1..Len(jobs) : TaskFinish(j)
  \/ \E run_id \in KnownIds : GetRunDetails(run_id)
  \/ ListRuns

SpecReader == InitApi /\ [][NextReader]_vars

\* The jobs whose run_eval is between the creation of its folder and its
\* end.
Writing(j) == jobs[j].pc \in {"loop", "writing"}

\* C23 as claimed: when start_evaluation answers, the run it started is
\* registered as running and its run folder exists and holds the metadata
\* file.
C23_AsClaimed ==
  [][Len(jobs') > Len(jobs) =>
       LET started == jobs'[Len(jobs')]
       IN  /\ HasKey(eval_tasks', started.run_id)
           /\ Get(eval_tasks', started.run_id).status = "running"
           /\ started.folder # None
           /\ HasKey(run_dirs', started.folder)
           /\ Get(run_dirs', started.folder).metadata # None]_vars

\* C24 as claimed: two runs never have the same run folder, also when they
\* have the same name and start within one second, and the lines of a
\* record log are all of one run.
C24_AsClaimed ==
  /\ \A j, k \in 1..Len(jobs) :
       (j # k /\ jobs[j].folder # None /\ jobs[k].folder # None)
         => jobs[j].folder # jobs[k].folder
  /\ \A f \in KeySet(run_dirs) :
       \A m, n \in 1..Len(Get(run_dirs, f).report) :
         Get(run_dirs, f).report[m].job = Get(run_dirs, f).report[n].job

\* C28 as claimed: the folder run_eval creates for a run is named by the
\* run_id start_evaluation returned and registered, whatever the start time
\* and the run name.
C28_AsClaimed ==
  \A j \in 1..Len(jobs) : jobs[j].folder # None => jobs[j].folder = jobs[j].run_id

\* C29 as claimed: no step removes the folder a run is writing to while the
\* registry has the run as running, and a registry entry disappears only
\* together with the folder of its id.
C29_AsClaimed ==
  [][/\ \A j \in 1..Len(jobs) :
          (/\ Writing(j)
           /\ StatusOf(jobs[j].run_id) = "running"
           /\ HasKey(run_dirs, jobs[j].folder))
            => HasKey(run_dirs', jobs[j].folder)
     /\ \A id \in KeySet(eval_tasks) :
          ~HasKey(eval_tasks', id) => (HasKey(run_dirs, id) /\ ~HasKey(run_dirs', id))]_vars

\* C25 as claimed: a status of the registry changes only from running to
\* completed, when a run of that id returned, or from running to error,
\* when a run of that id raised; a completed or error status stays as it
\* is until the entry is removed.
C25_AsClaimed ==
  [][\A id \in KeySet(eval_tasks) :
       (HasKey(eval_tasks', id) /\ StatusOf(id)' # StatusOf(id)) =>
         /\ StatusOf(id) = "running"
         /\ StatusOf(id)' = "completed" =>
              \E j \in 1..Len(jobs) :
                jobs[j].run_id = id /\ jobs[j].pc # "returned" /\ jobs'[j].pc = "returned"
         /\ StatusOf(id)' = "error" =>
              \E j \in 1..Len(jobs) :
                jobs[j].run_id = id /\ jobs[j].pc # "raised" /\ jobs'[j].pc = "raised"]_vars

\* C22 as claimed: a reader that runs while the log is written does not
\* fail: get_run_details answers with exactly the complete lines of the
\* log, in log order, and list_runs lists every run folder, with the number
\* of complete lines for the folders it reads.
C22_AsClaimed ==
  [][(response' # response /\ response'.op \in {"details", "list"}) =>
       IF response'.op = "details"
       THEN HasKey(run_dirs, response'.id) =>
              /\ response'.code = 200
              /\ response'.results = CompleteLines(Get(run_dirs, response'.id).report)
       ELSE \A f \in KeySet(run_dirs) :
              \E r \in response'.runs :
                /\ r.run_id = f
                /\ ~HasKey(eval_tasks, f) =>
                     r.num_questions = Len(CompleteLines(Get(run_dirs, f).report))]_vars

====
